---- MODULE Spec2Model ----
\* Media identification pipeline of trakt_helper.py: the filename parser
\* (parse_filename) and the resolution engine (action_resolve).
EXTENDS Integers, Sequences, FiniteSets, TLC

\* ------------------------------------------------------------------------
\* Text: a string is a sequence of one-character strings.

Digits == {"0", "1", "2", "3", "4", "5", "6", "7", "8", "9"}

Letters ==
    {"a", "b", "c", "d", "e", "f", "g", "h", "i", "j", "k", "l", "m",
     "n", "o", "p", "q", "r", "s", "t", "u", "v", "w", "x", "y", "z"}

\* str.lower() / re.IGNORECASE folding of one character
ToLower ==
    ("A" :> "a") @@ ("B" :> "b") @@ ("C" :> "c") @@ ("D" :> "d") @@
    ("E" :> "e") @@ ("F" :> "f") @@ ("G" :> "g") @@ ("H" :> "h") @@
    ("I" :> "i") @@ ("J" :> "j") @@ ("K" :> "k") @@ ("L" :> "l") @@
    ("M" :> "m") @@ ("N" :> "n") @@ ("O" :> "o") @@ ("P" :> "p") @@
    ("Q" :> "q") @@ ("R" :> "r") @@ ("S" :> "s") @@ ("T" :> "t") @@
    ("U" :> "u") @@ ("V" :> "v") @@ ("W" :> "w") @@ ("X" :> "x") @@
    ("Y" :> "y") @@ ("Z" :> "z")

Lower(ch) == IF ch \in DOMAIN ToLower THEN ToLower[ch] ELSE ch

LowerStr(s) == [k \in 1..Len(s) |-> Lower(s[k])]

DigitVal ==
    ("0" :> 0) @@ ("1" :> 1) @@ ("2" :> 2) @@ ("3" :> 3) @@ ("4" :> 4) @@
    ("5" :> 5) @@ ("6" :> 6) @@ ("7" :> 7) @@ ("8" :> 8) @@ ("9" :> 9)

\* int(text) for a non-empty run of decimal digits
RECURSIVE ToInt(_)
ToInt(s) ==
    IF Len(s) = 0 THEN 0
    ELSE 10 * ToInt(SubSeq(s, 1, Len(s) - 1)) + DigitVal[s[Len(s)]]

\* ------------------------------------------------------------------------
\* Regular expressions (re.match with re.VERBOSE | re.IGNORECASE): a
\* backtracking matcher that returns every way to match, in the priority
\* order of the re module, so that the head is the match re.match reports.

GroupNames ==
    {"crc", "day", "episodenumber", "episodenumberend",
     "episodenumberstart", "group", "month", "moviename", "seasonnumber",
     "seriesname", "year"}

\* a group that did not take part in the match (m.group(name) is None)
NoCap == <<0, -1>>

Caps0 == [n \in GroupNames |-> NoCap]

Lit(ch) == [t |-> "in", neg |-> FALSE, s |-> {ch}]
In(S) == [t |-> "in", neg |-> FALSE, s |-> S]
NotIn(S) == [t |-> "in", neg |-> TRUE, s |-> S]
Dot == [t |-> "dot"]
Bol == [t |-> "bol"]
Eol == [t |-> "eol"]
Cat(xs) == [t |-> "cat", xs |-> xs]
Alt(xs) == [t |-> "alt", xs |-> xs]
Grp(n, r) == [t |-> "grp", n |-> n, r |-> r]
Ref(n) == [t |-> "ref", n |-> n]
Ahead(r) == [t |-> "ahead", r |-> r]
Greedy(r, lo, hi) ==
    [t |-> "rep", r |-> r, lo |-> lo, hi |-> hi, inf |-> FALSE, greedy |-> TRUE]
GreedyFrom(r, lo) ==
    [t |-> "rep", r |-> r, lo |-> lo, hi |-> lo, inf |-> TRUE, greedy |-> TRUE]
Lazy(r, lo, hi) ==
    [t |-> "rep", r |-> r, lo |-> lo, hi |-> hi, inf |-> FALSE, greedy |-> FALSE]
LazyFrom(r, lo) ==
    [t |-> "rep", r |-> r, lo |-> lo, hi |-> lo, inf |-> TRUE, greedy |-> FALSE]

Sub(s, cap) == SubSeq(s, cap[1], cap[2])

\* does the one-character matcher r accept the character at position k
Accepts(r, s, k) ==
    /\ k <= Len(s)
    /\ IF r.t = "dot" THEN s[k] # "\n" ELSE (Lower(s[k]) \in r.s) # r.neg

\* the length of the longest run of characters from position i that the
\* one-character matcher r accepts
RunLen(r, s, i) ==
    Cardinality({n \in 1..(Len(s) - i + 1) :
                   \A k \in i..(i + n - 1) : Accepts(r, s, k)})

RECURSIVE M(_, _, _, _)
RECURSIVE MCat(_, _, _, _, _)
RECURSIVE MCatAll(_, _, _, _, _, _)
RECURSIVE MAlt(_, _, _, _, _)
RECURSIVE MRep(_, _, _, _, _)
RECURSIVE MRepAll(_, _, _, _, _, _, _)

\* M(r, s, i, c): the matches of r in s from position i with captures c,
\* each one [i |-> next position, c |-> captures].
M(r, s, i, c) ==
    CASE r.t \in {"in", "dot"} ->
           IF Accepts(r, s, i) THEN <<[i |-> i + 1, c |-> c]>> ELSE <<>>
      [] r.t = "bol" ->
           IF i = 1 THEN <<[i |-> i, c |-> c]>> ELSE <<>>
      [] r.t = "eol" ->
           IF i = Len(s) + 1 \/ (i = Len(s) /\ s[i] = "\n")
           THEN <<[i |-> i, c |-> c]>> ELSE <<>>
      [] r.t = "cat" -> MCat(r.xs, 1, s, i, c)
      [] r.t = "alt" -> MAlt(r.xs, 1, s, i, c)
      [] r.t = "grp" ->
           LET R == M(r.r, s, i, c)
           IN  [k \in 1..Len(R) |->
                  [i |-> R[k].i,
                   c |-> [R[k].c EXCEPT ![r.n] = <<i, R[k].i - 1>>]]]
      [] r.t = "ref" ->
           LET g == c[r.n]
               n == g[2] - g[1] + 1
           IN  IF g # NoCap /\ i + n - 1 <= Len(s)
                  /\ LowerStr(SubSeq(s, i, i + n - 1)) = LowerStr(Sub(s, g))
               THEN <<[i |-> i + n, c |-> c]>> ELSE <<>>
      [] r.t = "ahead" ->
           LET R == M(r.r, s, i, c)
           IN  IF R = <<>> THEN <<>> ELSE <<[i |-> i, c |-> R[1].c]>>
      [] r.t = "rep" ->
           IF r.r.t \in {"in", "dot"}
           THEN \* a run of single characters: lo..max characters, the
                \* longest first when greedy, the shortest first when lazy
                LET run == RunLen(r.r, s, i)
                    max == IF r.inf \/ run < r.hi THEN run ELSE r.hi
                    cnt == IF max >= r.lo THEN max - r.lo + 1 ELSE 0
                IN  [k \in 1..cnt |->
                       [i |-> IF r.greedy THEN i + max - (k - 1)
                              ELSE i + r.lo + (k - 1),
                        c |-> c]]
           ELSE MRep(r, 0, s, i, c)

MCat(xs, k, s, i, c) ==
    IF k > Len(xs) THEN <<[i |-> i, c |-> c]>>
    ELSE LET R == M(xs[k], s, i, c) IN MCatAll(xs, k, s, R, 1, Len(R))

\* the matches of xs[k+1..] after each of the matches R[a..b] of xs[k]
MCatAll(xs, k, s, R, a, b) ==
    IF a > b THEN <<>>
    ELSE IF a = b THEN MCat(xs, k + 1, s, R[a].i, R[a].c)
    ELSE LET mid == (a + b) \div 2
         IN  MCatAll(xs, k, s, R, a, mid) \o MCatAll(xs, k, s, R, mid + 1, b)

MAlt(xs, k, s, i, c) ==
    IF k > Len(xs) THEN <<>>
    ELSE M(xs[k], s, i, c) \o MAlt(xs, k + 1, s, i, c)

\* n iterations of r.r are done; an iteration that consumes nothing ends
\* the repetition
MRep(r, n, s, i, c) ==
    LET R == M(r.r, s, i, c)
        more == IF r.inf \/ n < r.hi
                THEN MRepAll(r, n, s, i, R, 1, Len(R)) ELSE <<>>
        stop == IF n >= r.lo THEN <<[i |-> i, c |-> c]>> ELSE <<>>
    IN  IF r.greedy THEN more \o stop ELSE stop \o more

MRepAll(r, n, s, i, R, a, b) ==
    IF a > b THEN <<>>
    ELSE IF a = b
    THEN IF R[a].i > i THEN MRep(r, n + 1, s, R[a].i, R[a].c)
         ELSE IF n + 1 >= r.lo THEN <<R[a]>> ELSE <<>>
    ELSE LET mid == (a + b) \div 2
         IN  MRepAll(r, n, s, i, R, a, mid)
             \o MRepAll(r, n, s, i, R, mid + 1, b)

\* re.match(pattern, s): the captures of the preferred match, or no match
Matches(p, s) == M(p.re, s, 1, Caps0)

\* ------------------------------------------------------------------------
\* The patterns of parse_filename. The inline (?i) of the Part.1.and.Part.2
\* pattern sets the flag re.IGNORECASE, which every re.match call passes.

\* series_patterns[0], lines 651-660
series_pattern_1 ==
    [groups |-> {"group", "seriesname", "episodenumberstart", "episodenumberend", "crc"},
     re |-> Cat(<<Bol, Lit("["), Grp("group", LazyFrom(Dot, 1)), Lit("]"),
            Greedy(Lit(" "), 0, 1), Grp("seriesname", LazyFrom(Dot, 0)),
            Greedy(Lit(" "), 0, 1), In({"-", "_"}), Greedy(Lit(" "), 0, 1),
            Grp("episodenumberstart", GreedyFrom(In(Digits), 1)),
            GreedyFrom(Cat(<<In({"-", "_"}), GreedyFrom(In(Digits), 1)>>), 0),
            In({"-", "_"}), Grp("episodenumberend", GreedyFrom(In(Digits), 1)),
            Greedy(Ahead(Cat(<<GreedyFrom(Dot, 0), Lit("["), Grp("crc", LazyFrom(Dot,
            1)), Lit("]")>>)), 0, 1), GreedyFrom(NotIn({"/"}), 0), Eol>>)]

\* series_patterns[1], lines 663-671
series_pattern_2 ==
    [groups |-> {"group", "seriesname", "episodenumber", "crc"},
     re |-> Cat(<<Bol, Lit("["), Grp("group", LazyFrom(Dot, 1)), Lit("]"),
            Greedy(Lit(" "), 0, 1), Grp("seriesname", GreedyFrom(Dot, 0)),
            Greedy(Lit(" "), 0, 1), In({"-", "_"}), Greedy(Lit(" "), 0, 1),
            Grp("episodenumber", GreedyFrom(In(Digits), 1)),
            Greedy(Ahead(Cat(<<GreedyFrom(Dot, 0), Lit("["), Grp("crc", LazyFrom(Dot,
            1)), Lit("]")>>)), 0, 1), GreedyFrom(NotIn({"/"}), 0), Eol>>)]

\* series_patterns[2], lines 674-686
series_pattern_3 ==
    [groups |-> {"seriesname", "seasonnumber", "episodenumberstart", "episodenumberend"},
     re |-> Cat(<<Bol, Greedy(Cat(<<Grp("seriesname", LazyFrom(Dot, 1)), In({" ",
            ".", "_", "-"})>>), 0, 1), In({"s"}), Grp("seasonnumber",
            GreedyFrom(In(Digits), 1)), Greedy(In({".", "-", " "}), 0, 1), In({"e"}),
            Grp("episodenumberstart", GreedyFrom(In(Digits), 1)),
            GreedyFrom(Cat(<<GreedyFrom(In({".", "-", " "}), 1), In({"s"}),
            Ref("seasonnumber"), Greedy(In({".", "-", " "}), 0, 1), In({"e"}),
            GreedyFrom(In(Digits), 1)>>), 0), Cat(<<GreedyFrom(In({".", "-", " "}),
            1), In({"s"}), Ref("seasonnumber"), Greedy(In({".", "-", " "}), 0, 1),
            In({"e"}), Grp("episodenumberend", GreedyFrom(In(Digits), 1))>>),
            GreedyFrom(NotIn({"/"}), 0), Eol>>)]

\* series_patterns[3], lines 689-696
series_pattern_4 ==
    [groups |-> {"seriesname", "seasonnumber", "episodenumberstart", "episodenumberend"},
     re |-> Cat(<<Bol, Greedy(Cat(<<Grp("seriesname", LazyFrom(Dot, 1)), In({" ",
            ".", "_", "-"})>>), 0, 1), In({"s"}), Grp("seasonnumber",
            GreedyFrom(In(Digits), 1)), Greedy(In({".", "-", " "}), 0, 1), In({"e"}),
            Grp("episodenumberstart", GreedyFrom(In(Digits), 1)),
            GreedyFrom(Cat(<<Greedy(In({".", "-", " "}), 0, 1), In({"e"}),
            GreedyFrom(In(Digits), 1)>>), 0), Greedy(In({".", "-", " "}), 0, 1),
            In({"e"}), Grp("episodenumberend", GreedyFrom(In(Digits), 1)),
            GreedyFrom(NotIn({"/"}), 0), Eol>>)]

\* series_patterns[4], lines 699-708
series_pattern_5 ==
    [groups |-> {"seriesname", "seasonnumber", "episodenumberstart", "episodenumberend"},
     re |-> Cat(<<Bol, Greedy(Cat(<<Grp("seriesname", LazyFrom(Dot, 1)), In({" ",
            ".", "_", "-"})>>), 0, 1), Grp("seasonnumber", GreedyFrom(In(Digits),
            1)), In({"x"}), Grp("episodenumberstart", GreedyFrom(In(Digits), 1)),
            GreedyFrom(Cat(<<GreedyFrom(In({" ", ".", "_", "-"}), 1),
            Ref("seasonnumber"), In({"x"}), GreedyFrom(In(Digits), 1)>>), 0),
            Cat(<<GreedyFrom(In({" ", ".", "_", "-"}), 1), Ref("seasonnumber"),
            In({"x"}), Grp("episodenumberend", GreedyFrom(In(Digits), 1))>>),
            GreedyFrom(NotIn({"/"}), 0), Eol>>)]

\* series_patterns[5], lines 711-716
series_pattern_6 ==
    [groups |-> {"seriesname", "seasonnumber", "episodenumberstart", "episodenumberend"},
     re |-> Cat(<<Bol, Greedy(Cat(<<Grp("seriesname", LazyFrom(Dot, 1)), In({" ",
            ".", "_", "-"})>>), 0, 1), Grp("seasonnumber", GreedyFrom(In(Digits),
            1)), In({"x"}), Grp("episodenumberstart", GreedyFrom(In(Digits), 1)),
            GreedyFrom(Cat(<<In({"x"}), GreedyFrom(In(Digits), 1)>>), 0), In({"x"}),
            Grp("episodenumberend", GreedyFrom(In(Digits), 1)),
            GreedyFrom(NotIn({"/"}), 0), Eol>>)]

\* series_patterns[6], lines 719-730
series_pattern_7 ==
    [groups |-> {"seriesname", "seasonnumber", "episodenumberstart", "episodenumberend"},
     re |-> Cat(<<Bol, Greedy(Cat(<<Grp("seriesname", LazyFrom(Dot, 1)), In({" ",
            ".", "_", "-"})>>), 0, 1), In({"s"}), Grp("seasonnumber",
            GreedyFrom(In(Digits), 1)), Greedy(In({".", "-", " "}), 0, 1), In({"e"}),
            Grp("episodenumberstart", GreedyFrom(In(Digits), 1)),
            GreedyFrom(Cat(<<Lit("-"), Greedy(In({"e"}), 0, 1),
            GreedyFrom(In(Digits), 1)>>), 0), Lit("-"), Greedy(In({"e"}), 0, 1),
            Grp("episodenumberend", GreedyFrom(In(Digits), 1)), In({".", "-", " "}),
            GreedyFrom(NotIn({"/"}), 0), Eol>>)]

\* series_patterns[7], lines 733-743
series_pattern_8 ==
    [groups |-> {"seriesname", "seasonnumber", "episodenumberstart", "episodenumberend"},
     re |-> Cat(<<Bol, Greedy(Cat(<<Grp("seriesname", LazyFrom(Dot, 1)), In({" ",
            ".", "_", "-"})>>), 0, 1), Grp("seasonnumber", GreedyFrom(In(Digits),
            1)), In({"x"}), Grp("episodenumberstart", GreedyFrom(In(Digits), 1)),
            GreedyFrom(Cat(<<In({"-", "+"}), GreedyFrom(In(Digits), 1)>>), 0),
            In({"-", "+"}), Grp("episodenumberend", GreedyFrom(In(Digits), 1)),
            Alt(<<Cat(<<In({".", "-", "+", " "}), GreedyFrom(Dot, 0)>>), Eol>>)>>)]

\* series_patterns[8], lines 746-755
series_pattern_9 ==
    [groups |-> {"seriesname", "seasonnumber", "episodenumberstart", "episodenumberend"},
     re |-> Cat(<<Bol, Grp("seriesname", LazyFrom(Dot, 1)), In({" ", ".", "_", "-"}),
            Greedy(Lit("["), 0, 1), Grp("seasonnumber", GreedyFrom(In(Digits), 1)),
            In({"x"}), Grp("episodenumberstart", GreedyFrom(In(Digits), 1)),
            GreedyFrom(Cat(<<In({"-", "+"}), GreedyFrom(In(Digits), 1)>>), 0),
            In({"-", "+"}), Grp("episodenumberend", GreedyFrom(In(Digits), 1)),
            Lit("]"), GreedyFrom(NotIn({"/"}), 0), Eol>>)]

\* series_patterns[9], lines 758-762
series_pattern_10 ==
    [groups |-> {"seriesname", "episodenumber"},
     re |-> Cat(<<Bol, Greedy(Cat(<<Grp("seriesname", LazyFrom(Dot, 1)), In({" ",
            ".", "_", "-"})>>), 0, 1), Lit("["), Grp("episodenumber",
            GreedyFrom(In(Digits), 1)), Lit("]"), GreedyFrom(NotIn({"/"}), 0),
            Eol>>)]

\* series_patterns[10], lines 764-768
series_pattern_11 ==
    [groups |-> {"seriesname", "seasonnumber", "episodenumber"},
     re |-> Cat(<<Bol, Grp("seriesname", LazyFrom(Dot, 1)), In({" ", ".", "_", "-"}),
            In({"s"}), Grp("seasonnumber", Greedy(In(Digits), 2, 2)), Greedy(In({".",
            "-", " "}), 0, 1), Grp("episodenumber", Greedy(In(Digits), 2, 2)),
            GreedyFrom(NotIn(Digits), 0), Eol>>)]

\* series_patterns[11], lines 771-777
series_pattern_12 ==
    [groups |-> {"seriesname", "seasonnumber", "episodenumber"},
     re |-> Cat(<<Bol, Greedy(Cat(<<Grp("seriesname", LazyFrom(Dot, 1)), In({" ",
            ".", "_", "-"})>>), 0, 1), Greedy(Lit("["), 0, 1), Grp("seasonnumber",
            GreedyFrom(In(Digits), 1)), In({"x"}), Grp("episodenumber",
            GreedyFrom(In(Digits), 1)), Greedy(Lit("]"), 0, 1),
            GreedyFrom(NotIn({"/"}), 0), Eol>>)]

\* series_patterns[12], lines 780-785
series_pattern_13 ==
    [groups |-> {"seriesname", "seasonnumber", "episodenumber"},
     re |-> Cat(<<Bol, Greedy(Cat(<<Grp("seriesname", LazyFrom(Dot, 1)), In({" ",
            ".", "_", "-"})>>), 0, 1), Greedy(Lit("["), 0, 1), In({"s"}),
            Grp("seasonnumber", GreedyFrom(In(Digits), 1)), Greedy(Lit(" "), 0, 1),
            Greedy(In({".", "_", "-", " "}), 0, 1), Greedy(Lit(" "), 0, 1),
            Greedy(In({"e"}), 0, 1), Grp("episodenumber", GreedyFrom(In(Digits), 1)),
            Greedy(Lit("]"), 0, 1), GreedyFrom(NotIn({"/"}), 0), Eol>>)]

\* series_patterns[13], lines 788-795
series_pattern_14 ==
    [groups |-> {"seriesname", "year", "month", "day"},
     re |-> Cat(<<Bol, Greedy(Cat(<<Grp("seriesname", LazyFrom(Dot, 1)), In({" ",
            ".", "_", "-"})>>), 0, 1), Grp("year", Greedy(In(Digits), 4, 4)),
            In({" ", ".", "_", "-"}), Grp("month", Greedy(In(Digits), 2, 2)),
            In({" ", ".", "_", "-"}), Grp("day", Greedy(In(Digits), 2, 2)),
            GreedyFrom(NotIn({"/"}), 0), Eol>>)]

\* series_patterns[14], lines 798-806
series_pattern_15 ==
    [groups |-> {"seriesname", "seasonnumber", "episodenumber"},
     re |-> Cat(<<Bol, Grp("seriesname", LazyFrom(Dot, 1)), Greedy(In({" ", ".", "_",
            "-"}), 0, 1), Lit("["), Grp("seasonnumber", LazyFrom(In(Digits), 1)),
            Lit("."), Grp("episodenumber", LazyFrom(In(Digits), 1)), Lit("]"),
            Greedy(In({" ", ".", "_", "-"}), 0, 1), GreedyFrom(NotIn({"/"}), 0),
            Eol>>)]

\* series_patterns[15], lines 809-812
series_pattern_16 ==
    [groups |-> {"seriesname", "seasonnumber", "episodenumber"},
     re |-> Cat(<<Bol, Grp("seriesname", LazyFrom(Dot, 1)), Greedy(Lit(" "), 0, 1),
            In({" ", ".", "_", "-"}), Greedy(Lit(" "), 0, 1), In({"s"}),
            Grp("seasonnumber", GreedyFrom(In(Digits), 1)), Greedy(In({".", "-",
            " "}), 0, 1), Greedy(In({"e"}), 0, 1), Greedy(Lit(" "), 0, 1),
            Grp("episodenumber", GreedyFrom(In(Digits), 1)), GreedyFrom(NotIn({"/"}),
            0), Eol>>)]

\* series_patterns[16], lines 815-825
series_pattern_17 ==
    [groups |-> {"seriesname", "seasonnumber", "episodenumber"},
     re |-> Cat(<<Grp("seriesname", GreedyFrom(Dot, 1)), Lit(" "), Lit("-"),
            Lit(" "), In({"e"}), Lit("p"), Lit("i"), Lit("s"), Lit("o"), Lit("d"),
            Lit("e"), Lit(" "), GreedyFrom(In(Digits), 1), Lit(" "), Lit("["),
            In({"s"}), Greedy(Lit(" "), 0, 1), Grp("seasonnumber",
            GreedyFrom(In(Digits), 1)), Alt(<<Lit(" "), Cat(<<Lit(" "), Lit("-"),
            Lit(" ")>>), Lit("-")>>), Cat(<<In({"e"}), Alt(<<Cat(<<>>),
            Lit("p")>>)>>), Greedy(Lit(" "), 0, 1), Grp("episodenumber",
            GreedyFrom(In(Digits), 1)), Lit("]"), GreedyFrom(Dot, 0), Eol>>)]

\* series_patterns[17], lines 828-835
series_pattern_18 ==
    [groups |-> {"seriesname", "episodenumber"},
     re |-> Cat(<<Bol, Grp("seriesname", LazyFrom(Dot, 1)), In({" ", ".", "_", "-"}),
            Grp("episodenumber", GreedyFrom(In(Digits), 1)), Lit("o"), Lit("f"),
            Greedy(In({" ", ".", "_", "-"}), 0, 1), GreedyFrom(In(Digits), 1),
            Alt(<<In({".", "_", " ", "-"}), Eol, Cat(<<GreedyFrom(NotIn({"/"}), 0),
            Eol>>)>>)>>)]

\* series_patterns[18], lines 838-851
series_pattern_19 ==
    [groups |-> {"seriesname", "episodenumberstart", "episodenumberend"},
     re |-> Cat(<<Bol, Grp("seriesname", LazyFrom(Dot, 1)), In({" ", ".", "_", "-"}),
            Greedy(Cat(<<Lit("p"), Alt(<<Cat(<<Lit("a"), Lit("r"), Lit("t")>>),
            Lit("t")>>)>>), 0, 1), In({".", "_", " ", "-"}),
            Grp("episodenumberstart", GreedyFrom(In(Digits), 1)),
            GreedyFrom(Cat(<<In({" ", ".", "_", "-"}), Alt(<<Cat(<<Lit("a"),
            Lit("n"), Lit("d")>>), Lit("&"), Cat(<<Lit("t"), Lit("o")>>)>>), In({" ",
            ".", "_", "-"}), Greedy(Cat(<<Lit("p"), Alt(<<Cat(<<Lit("a"), Lit("r"),
            Lit("t")>>), Lit("t")>>)>>), 0, 1), In({" ", ".", "_", "-"}),
            GreedyFrom(In(Digits), 1)>>), 0), In({" ", ".", "_", "-"}),
            Alt(<<Cat(<<Lit("a"), Lit("n"), Lit("d")>>), Lit("&"), Cat(<<Lit("t"),
            Lit("o")>>)>>), Greedy(In({" ", ".", "_", "-"}), 0, 1),
            Greedy(Cat(<<Lit("p"), Alt(<<Cat(<<Lit("a"), Lit("r"), Lit("t")>>),
            Lit("t")>>)>>), 0, 1), In({" ", ".", "_", "-"}), Grp("episodenumberend",
            GreedyFrom(In(Digits), 1)), In({".", "_", " ", "-"}),
            GreedyFrom(NotIn({"/"}), 0), Eol>>)]

\* series_patterns[19], lines 854-858
series_pattern_20 ==
    [groups |-> {"seriesname", "episodenumber"},
     re |-> Cat(<<Bol, Grp("seriesname", LazyFrom(Dot, 1)), In({" ", ".", "_", "-"}),
            In({"p"}), Lit("a"), Lit("r"), Lit("t"), Lit(" "), Grp("episodenumber",
            GreedyFrom(In(Digits), 1)), In({".", "_", " ", "-"}),
            GreedyFrom(NotIn({"/"}), 0), Eol>>)]

\* series_patterns[20], lines 861-864
series_pattern_21 ==
    [groups |-> {"seriesname", "seasonnumber", "episodenumber"},
     re |-> Cat(<<Bol, Grp("seriesname", LazyFrom(Dot, 1)), Greedy(Lit(" "), 0, 1),
            In({"s"}), Lit("e"), Lit("a"), Lit("s"), Lit("o"), Lit("n"),
            Greedy(Lit(" "), 0, 1), Grp("seasonnumber", GreedyFrom(In(Digits), 1)),
            Greedy(Lit(" "), 0, 1), In({"e"}), Lit("p"), Lit("i"), Lit("s"),
            Lit("o"), Lit("d"), Lit("e"), Greedy(Lit(" "), 0, 1),
            Grp("episodenumber", GreedyFrom(In(Digits), 1)), GreedyFrom(NotIn({"/"}),
            0), Eol>>)]

\* series_patterns[21], lines 867-870
series_pattern_22 ==
    [groups |-> {"seriesname", "seasonnumber", "episodenumber"},
     re |-> Cat(<<Bol, Grp("seriesname", GreedyFrom(Dot, 1)), In({" ", ".", "_",
            "-"}), Grp("seasonnumber", Greedy(In(Digits), 1, 1)),
            Grp("episodenumber", Greedy(In(Digits), 2, 2)), In({".", "_", " ", "-"}),
            GreedyFrom(NotIn({"/"}), 0), Eol>>)]

\* series_patterns[22], lines 873-876
series_pattern_23 ==
    [groups |-> {"seriesname", "seasonnumber", "episodenumber"},
     re |-> Cat(<<Bol, Grp("seriesname", GreedyFrom(Dot, 1)), In({" ", ".", "_",
            "-"}), Grp("seasonnumber", Greedy(In(Digits), 2, 2)),
            Grp("episodenumber", Greedy(In(Digits), 2, 3)), In({".", "_", " ", "-"}),
            GreedyFrom(NotIn({"/"}), 0), Eol>>)]

\* series_patterns[23], lines 879-883
series_pattern_24 ==
    [groups |-> {"seriesname", "episodenumber"},
     re |-> Cat(<<Bol, Grp("seriesname", LazyFrom(Dot, 1)), In({" ", ".", "_", "-"}),
            In({"e"}), Grp("episodenumber", GreedyFrom(In(Digits), 1)), In({".", "_",
            " ", "-"}), GreedyFrom(NotIn({"/"}), 0), Eol>>)]

series_patterns ==
    <<series_pattern_1, series_pattern_2, series_pattern_3, series_pattern_4,
      series_pattern_5, series_pattern_6, series_pattern_7, series_pattern_8,
      series_pattern_9, series_pattern_10, series_pattern_11,
      series_pattern_12, series_pattern_13, series_pattern_14,
      series_pattern_15, series_pattern_16, series_pattern_17,
      series_pattern_18, series_pattern_19, series_pattern_20,
      series_pattern_21, series_pattern_22, series_pattern_23,
      series_pattern_24>>

\* movies_patterns[0], lines 924-929
movies_pattern_1 ==
    [groups |-> {"moviename", "year"},
     re |-> Cat(<<Bol, Greedy(Alt(<<Cat(<<Lit("("), LazyFrom(Dot, 0), Lit(")")>>),
            Cat(<<Lit("["), LazyFrom(Dot, 0), Lit("]")>>)>>), 0, 1), Greedy(Lit("-"),
            0, 1), LazyFrom(Lit(" "), 0), Grp("moviename", LazyFrom(Dot, 0)),
            Alt(<<Cat(<<Lit("d"), Lit("v"), Lit("d"), Lit("r"), Lit("i"),
            Lit("p")>>), Cat(<<Lit("x"), Lit("v"), Lit("i"), Lit("d")>>),
            Cat(<<Lit("c"), Lit("d"), In(Digits)>>), Cat(<<Lit("d"), Lit("v"),
            Lit("d"), Lit("s"), Lit("c"), Lit("r")>>), Cat(<<Lit("b"), Lit("r"),
            Lit("r"), Lit("i"), Lit("p")>>), Cat(<<Lit("d"), Lit("i"), Lit("v"),
            Lit("x")>>), Cat(<<Greedy(In({"{", "(", "["}), 0, 1), Grp("year",
            Greedy(In(Digits), 4, 4))>>)>>), GreedyFrom(Dot, 0), Eol>>)]

\* movies_patterns[1], lines 931-935
movies_pattern_2 ==
    [groups |-> {"moviename", "year"},
     re |-> Cat(<<Bol, Greedy(Alt(<<Cat(<<Lit("("), LazyFrom(Dot, 0), Lit(")")>>),
            Cat(<<Lit("["), LazyFrom(Dot, 0), Lit("]")>>)>>), 0, 1), Greedy(Lit("-"),
            0, 1), LazyFrom(Lit(" "), 0), Grp("moviename", LazyFrom(Dot, 1)),
            LazyFrom(Lit(" "), 0), Greedy(Cat(<<Greedy(In({"[", "("}), 0, 1),
            Grp("year", Greedy(In(Digits), 4, 4)), Greedy(In({"]", ")"}), 0, 1),
            GreedyFrom(Dot, 0)>>), 0, 1), Greedy(Cat(<<Lit("."),
            Greedy(In(Letters \cup Digits), 2, 4)>>), 0, 1), Eol>>)]

movies_patterns ==
    <<movies_pattern_1, movies_pattern_2>>

\* ------------------------------------------------------------------------
\* parse_filename

\* re.sub("[.](?!.(?:[.]|$))", " ", name): a dot is kept only when the
\* character after the next one is a dot or the end of the name
KeepDot1(s, k) ==
    /\ k + 1 <= Len(s)
    /\ s[k + 1] # "\n"
    /\ \/ k + 2 = Len(s) + 1
       \/ k + 2 <= Len(s) /\ s[k + 2] = "."
       \/ k + 2 = Len(s) /\ s[k + 2] = "\n"

\* re.sub("(?<=[^. ]{2})[.]", " ", name): a dot after two characters that
\* are neither dot nor space becomes a space
DropDot2(s, k) ==
    /\ k >= 3
    /\ s[k - 1] \notin {".", " "}
    /\ s[k - 2] \notin {".", " "}

RECURSIVE LStrip(_, _)
LStrip(s, chars) ==
    IF Len(s) > 0 /\ s[1] \in chars THEN LStrip(Tail(s), chars) ELSE s

RECURSIVE RStrip(_, _)
RStrip(s, chars) ==
    IF Len(s) > 0 /\ s[Len(s)] \in chars
    THEN RStrip(SubSeq(s, 1, Len(s) - 1), chars) ELSE s

\* cleanRegexedName without the two substitutions of dots
cleanRegexedNameKeepDots(name) ==
    LET n3 == [k \in 1..Len(name) |-> IF name[k] = "_" THEN " " ELSE name[k]]
    IN  RStrip(LStrip(n3, {"-", " "}), {"-", " "})

cleanRegexedName(name) ==
    LET n1 == [k \in 1..Len(name) |->
                 IF name[k] = "." /\ ~KeepDot1(name, k) THEN " " ELSE name[k]]
        n2 == [k \in 1..Len(n1) |->
                 IF n1[k] = "." /\ DropDot2(n1, k) THEN " " ELSE n1[k]]
        n3 == [k \in 1..Len(n2) |-> IF n2[k] = "_" THEN " " ELSE n2[k]]
    IN  RStrip(LStrip(n3, {"-", " "}), {"-", " "})

\* list(range(start, end + 1))
Range(start, end) == [k \in 1..(end - start + 1) |-> start + k - 1]

\* the value of a descriptor that an exception kept from being built
NoEpisode == [show |-> <<>>, season |-> 0, episodes |-> <<>>]
NoMovie == [title |-> <<>>, year |-> <<>>]

\* EpisodesOf without the swap of a reversed range
EpisodesOfNoSwap(p, s, c) ==
    IF "episodenumberstart" \in p.groups
    THEN [err |-> "",
          v |-> Range(ToInt(Sub(s, c["episodenumberstart"])),
                      ToInt(Sub(s, c["episodenumberend"])))]
    ELSE [err |-> "", v |-> <<ToInt(Sub(s, c["episodenumber"]))>>]

\* the episodes list built from the captures c of pattern p
EpisodesOf(p, s, c) ==
    IF "episodenumberstart" \in p.groups
    THEN IF "episodenumberend" \notin p.groups
         THEN [err |-> "IndexError", v |-> <<>>]
         ELSE IF c["episodenumberend"] # NoCap
                 /\ Len(Sub(s, c["episodenumberend"])) > 0
         THEN LET start == ToInt(Sub(s, c["episodenumberstart"]))
                  end == ToInt(Sub(s, c["episodenumberend"]))
              IN  [err |-> "",
                   v |-> IF start > end THEN Range(end, start)
                         ELSE Range(start, end)]
         ELSE [err |-> "", v |-> <<ToInt(Sub(s, c["episodenumberstart"]))>>]
    ELSE IF "episodenumber" \in p.groups
    THEN IF c["episodenumber"] = NoCap
         THEN [err |-> "TypeError", v |-> <<>>]
         ELSE [err |-> "", v |-> <<ToInt(Sub(s, c["episodenumber"]))>>]
    ELSE [err |-> "", v |-> <<>>]

\* the body of the series loop for a pattern p that matched with captures
\* c: the descriptor, or the exception an m.group(), re.sub() or int() raises
BuildEpisode(p, s, c) ==
    IF "seriesname" \notin p.groups THEN [err |-> "IndexError", v |-> NoEpisode]
    ELSE IF c["seriesname"] = NoCap THEN [err |-> "TypeError", v |-> NoEpisode]
    ELSE IF "seasonnumber" \notin p.groups
    THEN [err |-> "IndexError", v |-> NoEpisode]
    ELSE IF c["seasonnumber"] = NoCap THEN [err |-> "TypeError", v |-> NoEpisode]
    ELSE LET eps == EpisodesOf(p, s, c)
         IN  [err |-> eps.err,
              v |-> [show |-> cleanRegexedName(Sub(s, c["seriesname"])),
                     season |-> ToInt(Sub(s, c["seasonnumber"])),
                     episodes |-> eps.v]]

\* BuildMovie that leaves the year out
BuildMovieNoYear(p, s, c) ==
    [err |-> "",
     v |-> [title |-> cleanRegexedName(Sub(s, c["moviename"])), year |-> <<>>]]

\* the body of the movies loop for a pattern p that matched
BuildMovie(p, s, c) ==
    IF "moviename" \notin p.groups THEN [err |-> "IndexError", v |-> NoMovie]
    ELSE IF c["moviename"] = NoCap THEN [err |-> "TypeError", v |-> NoMovie]
    ELSE [err |-> "",
          v |-> [title |-> cleanRegexedName(Sub(s, c["moviename"])),
                 year |-> IF "year" \in p.groups /\ c["year"] # NoCap
                             /\ Len(Sub(s, c["year"])) > 0
                          THEN Sub(s, c["year"]) ELSE <<>>]]

\* ------------------------------------------------------------------------
\* Inputs

\* largest episode number in the generated multi-episode filenames
MaxEpisode == 3

fileShowNameS01E02 ==
    <<"S", "h", "o", "w", ".", "N", "a", "m", "e", ".", "S", "0", "1", "E",
      "0", "2", ".", "G", "r", "o", "u", "p", ".", "m", "k", "v">>

fileShowNameS01E02E03 ==
    <<"S", "h", "o", "w", ".", "N", "a", "m", "e", ".", "S", "0", "1", "E",
      "0", "2", "E", "0", "3", ".", "m", "k", "v">>

fileMovieTitle2012 ==
    <<"M", "o", "v", "i", "e", ".", "T", "i", "t", "l", "e", ".", "2", "0",
      "1", "2", ".", "B", "R", "R", "i", "p", ".", "X", "v", "i", "D", ".",
      "m", "k", "v">>

fileMovieTitle ==
    <<"M", "o", "v", "i", "e", ".", "T", "i", "t", "l", "e", ".", "a", "v",
      "i">>

fileEpisodeOnly ==
    <<"S", "h", "o", "w", ".", "S", "0", "1", "E", "0", "2", "\n", "x">>

fileGroupShow01 ==
    <<"[", "g", "r", "p", "]", " ", "S", "h", "o", "w", " ", "-", " ", "0",
      "1", " ", "[", "a", "b", "]", ".", "m", "k", "v">>

fileReversed ==
    <<"S", "h", "o", "w", ".", "S", "0", "1", "E", "0", "5", "-", "E", "0",
      "3", ".", "x", ".", "m", "k", "v">>

fileEmpty == <<>>

DigitChars == <<"0", "1", "2", "3", "4", "5", "6", "7", "8", "9">>

\* a one-digit number written with two digits
TwoDigits(d) == <<"0", DigitChars[d + 1]>>

\* multi-episode filenames from episode a to episode b, in the notations
\* of series_patterns: foo.s01e23e24, foo.s01e23-24, foo.1x23x24, and
\* s01e23e24 without a show name
RangeFile(fmt, a, b) ==
    CASE fmt = "sxe" ->
           <<"S", "h", "o", "w", ".", "S", "0", "1", "E">> \o TwoDigits(a)
             \o <<"E">> \o TwoDigits(b) \o <<".", "m", "k", "v">>
      [] fmt = "dash" ->
           <<"S", "h", "o", "w", ".", "S", "0", "1", "E">> \o TwoDigits(a)
             \o <<"-", "E">> \o TwoDigits(b) \o <<".", "x", ".", "m", "k", "v">>
      [] fmt = "x" ->
           <<"S", "h", "o", "w", ".", "1", "x">> \o TwoDigits(a)
             \o <<"x">> \o TwoDigits(b) \o <<".", "m", "k", "v">>
      [] fmt = "noshow" ->
           <<"S", "0", "1", "E">> \o TwoDigits(a)
             \o <<"E">> \o TwoDigits(b) \o <<".", "m", "k", "v">>

RangeFiles ==
    {RangeFile(fmt, a, b) : fmt \in {"sxe", "dash", "x", "noshow"},
                            a \in 1..MaxEpisode, b \in 1..MaxEpisode}

\* the filenames action_resolve is run on
Filenames ==
    {fileShowNameS01E02, fileShowNameS01E02E03, fileMovieTitle2012,
     fileMovieTitle, fileEpisodeOnly, fileGroupShow01, fileEmpty}

\* the filenames parse_filename is run on
ParseFilenames == Filenames \cup {fileReversed} \cup RangeFiles

\* ------------------------------------------------------------------------
\* State

VARIABLES
    filename,   \* meta['filename']
    oshash,     \* the hash argument, '' when none is given
    duration,   \* the duration argument, 0 when none is given
    pc,         \* the statement the invocation is at
    pi,         \* index of the pattern the running parse loop tries next
    found,      \* parse_filename's found dict: 'episode' and 'movie' entries
    evals,      \* the re.match calls made so far, in order, with outcome
    error,      \* the exception that ended the invocation and the function
                \* that raised it; NoError while none was raised
    connected,  \* OpenSubtitlesAPI._connected
    calls,      \* the provider calls made so far, in order
    medias,     \* search_hash's medias, the CheckMovieHash2 entries of the
                \* hash, until the next stage starts
    fetch,      \* the candidates or results whose title is fetched next
    names,      \* the series name and aliases still to search on imdb
    media,      \* the detail record of the search result: <<>> or <<record>>
    ratio,      \* the third element of the search result: <<>> or <<ratio>>
    via,        \* the stage that gave media: "hash", "text", "" when none
    should_insert_hash,
    ptype,      \* parsed['type']
    media_list, \* the records to print
    stdout,     \* what was printed: "", "[]" or "media_list"
    titles,     \* the answer of imdb.search_for_title(movie['title']), from
                \* the call to the use of search_text's result
    submitted,  \* how insert_hash's call of InsertMovieHash ended, "" while
                \* it was not called
    searched    \* the last seriesName of the loop of search_text_episode
                \* and the answer of imdb.search_for_title(seriesName), from
                \* the call to the next step of search_text

parseVars == <<filename, pi, found, evals>>
inputs == <<oshash, duration>>

vars ==
    <<filename, oshash, duration, pc, pi, found, evals, error, connected,
      calls, medias, fetch, names, media, ratio, via, should_insert_hash,
      ptype, media_list, stdout, titles, submitted, searched>>

NoError == [type |-> "", in |-> ""]

\* found = {}
NotFound == [episode |-> <<>>, movie |-> <<>>]

\* ------------------------------------------------------------------------
\* parse_filename, one re.match per step

\* a series loop without its break
SeriesLoopNextNoBreak(k, m) ==
    IF k = Len(series_patterns)
    THEN [pc |-> "movies", pi |-> 1]
    ELSE [pc |-> "series", pi |-> k + 1]

\* a series loop after which the movies loop runs only when no series
\* pattern matched
SeriesLoopNextSkipMovies(k, m) ==
    IF m THEN [pc |-> "search_hash", pi |-> 0]
    ELSE IF k = Len(series_patterns)
    THEN [pc |-> "movies", pi |-> 1]
    ELSE [pc |-> "series", pi |-> k + 1]

\* where the series loop goes after trying pattern k (break on a match)
SeriesLoopNext(k, m) ==
    IF m \/ k = Len(series_patterns)
    THEN [pc |-> "movies", pi |-> 1]
    ELSE [pc |-> "series", pi |-> k + 1]

\* where the movies loop goes after trying pattern k (break on a match)
MoviesLoopNext(k, m) ==
    IF m \/ k = Len(movies_patterns)
    THEN [pc |-> "search_hash", pi |-> 0]
    ELSE [pc |-> "movies", pi |-> k + 1]

SeriesStep ==
    /\ pc = "series"
    /\ LET p == series_patterns[pi]
           R == Matches(p, filename)
           m == R # <<>>
           b == BuildEpisode(p, filename, R[1].c)
           nxt == SeriesLoopNext(pi, m)
       IN  /\ evals' = Append(evals, [list |-> "series", k |-> pi, m |-> m])
           /\ IF m /\ b.err # ""
              THEN /\ pc' = "raised"
                   /\ error' = [type |-> b.err, in |-> "parse_filename"]
                   /\ UNCHANGED <<pi, found>>
              ELSE /\ found' = IF m THEN [found EXCEPT !.episode = <<b.v>>]
                               ELSE found
                   /\ pc' = nxt.pc
                   /\ pi' = nxt.pi
                   /\ UNCHANGED error
    /\ UNCHANGED <<filename, inputs, titles, submitted, searched,
                   connected, calls, medias, fetch, names,
                   media, ratio, via, should_insert_hash, ptype, media_list,
                   stdout>>

MoviesStep ==
    /\ pc = "movies"
    /\ LET p == movies_patterns[pi]
           R == Matches(p, filename)
           m == R # <<>>
           b == BuildMovie(p, filename, R[1].c)
           nxt == MoviesLoopNext(pi, m)
       IN  /\ evals' = Append(evals, [list |-> "movies", k |-> pi, m |-> m])
           /\ IF m /\ b.err # ""
              THEN /\ pc' = "raised"
                   /\ error' = [type |-> b.err, in |-> "parse_filename"]
                   /\ UNCHANGED <<pi, found>>
              ELSE /\ found' = IF m THEN [found EXCEPT !.movie = <<b.v>>]
                               ELSE found
                   /\ pc' = nxt.pc
                   /\ pi' = nxt.pi
                   /\ UNCHANGED error
    /\ UNCHANGED <<filename, inputs, titles, submitted, searched,
                   connected, calls, medias, fetch, names,
                   media, ratio, via, should_insert_hash, ptype, media_list,
                   stdout>>

\* ------------------------------------------------------------------------
\* action_resolve: inputs and provider data

\* most candidates CheckMovieHash2 lists for the hash
MaxCandidates == 2

\* the oshash argument: '' when no hash is given
Hashes == {"", "8e245d9679d31e12"}

\* the duration argument in seconds: 0 when no duration is given
Durations == {0, 7100}

\* results of fuzzywuzzy.fuzz.ratio, an integer from 0 to 100
Scores == {0, 50, 90}

QuotedShowNamePilot ==
    <<"\"", "S", "h", "o", "w", " ", "N", "a", "m", "e", "\"", " ", "P",
      "i", "l", "o", "t">>
QuotedShowPilot ==
    <<"\"", "S", "h", "o", "w", "\"", " ", "P", "i", "l", "o", "t">>
QuotedShowsPilot ==
    <<"\"", "S", "h", "o", "w", "s", "\"", " ", "P", "i", "l", "o", "t">>

\* runningTimeInMinutes of a detail record: <<>> when it is None
Runtimes == {<<>>, <<90>>, <<120>>}
DetailRuntimes == {<<>>, <<90>>}

MovieTitle == <<"M", "o", "v", "i", "e", " ", "T", "i", "t", "l", "e">>
MovieTitles ==
    <<"M", "o", "v", "i", "e", " ", "T", "i", "t", "l", "e", "s">>

\* one entry of the CheckMovieHash2 data for the hash; showRatio and
\* titleRatio are fuzz.ratio of the entry's MovieName with the parsed show
\* and with the parsed movie title
EpisodeCandidates ==
    [MovieKind : {"episode"}, SeriesSeason : {1}, SeriesEpisode : {2, 3},
     MovieName : {QuotedShowNamePilot, QuotedShowPilot, QuotedShowsPilot},
     showRatio : Scores, titleRatio : {50}]
MovieCandidates ==
    [MovieKind : {"movie"}, SeriesSeason : {0}, SeriesEpisode : {0},
     MovieName : {MovieTitle, MovieTitles}, showRatio : {0},
     titleRatio : {50, 90}]
Candidates == EpisodeCandidates \cup MovieCandidates

RECURSIVE SeqsUpTo(_, _)
\* the sequences of at most n elements of S
SeqsUpTo(S, n) ==
    IF n = 0 THEN {<<>>}
    ELSE LET T == SeqsUpTo(S, n - 1)
         IN  T \cup {Append(t, x) : t \in {u \in T : Len(u) = n - 1}, x \in S}

\* medias[oshash]; MovieImdbID is the entry's position in the list
WithIds(list) ==
    [k \in 1..Len(list) |->
        [MovieKind |-> list[k].MovieKind,
         SeriesSeason |-> list[k].SeriesSeason,
         SeriesEpisode |-> list[k].SeriesEpisode,
         MovieName |-> list[k].MovieName,
         showRatio |-> list[k].showRatio,
         titleRatio |-> list[k].titleRatio,
         MovieImdbID |-> k]]

\* fuzz.ratio is a function: entries of the same name have the same ratios
SameRatios(list) ==
    \A i \in 1..Len(list) : \A j \in 1..Len(list) :
        list[i].MovieName = list[j].MovieName =>
            /\ list[i].showRatio = list[j].showRatio
            /\ list[i].titleRatio = list[j].titleRatio

HashResponses ==
    {WithIds(l) : l \in {x \in SeqsUpTo(Candidates, MaxCandidates) :
                            SameRatios(x)}}

\* variant of InParsed: only the first descriptor of the result counts
InParsedFirstVariant(f, kind) ==
    IF f.episode # <<>> THEN kind = "episode"
    ELSE kind = "movie" /\ f.movie # <<>>

\* 'episode' in parsed, 'movie' in parsed
InParsed(f, kind) ==
    IF kind = "episode" THEN f.episode # <<>>
    ELSE IF kind = "movie" THEN f.movie # <<>>
    ELSE FALSE

StartsWith(s, prefix) ==
    Len(prefix) <= Len(s) /\ SubSeq(s, 1, Len(prefix)) = prefix

\* '"{}"'.format(episode['show'].lower())
ShowPrefix(episode) == <<"\"">> \o LowerStr(episode.show) \o <<"\"">>

\* a max that gives the last of the elements with the largest key
LastMax(keys) ==
    CHOOSE i \in 1..Len(keys) :
        /\ \A j \in 1..Len(keys) : keys[j] <= keys[i]
        /\ \A j \in (i + 1)..Len(keys) : keys[j] < keys[i]

\* max(seq, key): the first element with the largest key, given as index
FirstMax(keys) ==
    CHOOSE i \in 1..Len(keys) :
        /\ \A j \in 1..Len(keys) : keys[j] <= keys[i]
        /\ \A j \in 1..(i - 1) : keys[j] < keys[i]

\* weight_episode(closest) >= .8
FuzzyAccept(score) == 10 * score >= 8

\* a test of the candidate that leaves the episode number out
SameEpisodeAnyNumber(m, episode) ==
    /\ m.MovieKind = "episode"
    /\ m.SeriesSeason = episode.season

\* same season and first episode as the parsed episode
SameEpisode(m, episode) ==
    /\ m.MovieKind = "episode"
    /\ m.SeriesSeason = episode.season
    /\ m.SeriesEpisode = episode.episodes[1]

NoCandidate == <<>>

\* search_hash from the CheckMovieHash2 answer to the choice of the entry
\* whose title is fetched: res is "none" (return None), "raise" (err is
\* the exception) or "fetch" (get_title of media, excluding episodes or not)
ChooseHash(f, entries) ==
    LET none == [res |-> "none", err |-> "", media |-> NoCandidate,
                 exclude_episodes |-> FALSE]
        fail(e) == [res |-> "raise", err |-> e, media |-> NoCandidate,
                    exclude_episodes |-> FALSE]
        get(m, x) == [res |-> "fetch", err |-> "", media |-> <<m>>,
                      exclude_episodes |-> x]
    IN
    IF Len(entries) = 1
    THEN \* media['MovieKind'] not in parsed
         IF f = NotFound THEN fail("TypeError")
         ELSE IF ~InParsed(f, entries[1].MovieKind) THEN none
         ELSE get(entries[1], entries[1].MovieKind = "movie")
    ELSE IF f = NotFound THEN fail("TypeError")
    ELSE LET episode == f.episode[1]
             Exact(m) == /\ SameEpisode(m, episode)
                         /\ StartsWith(LowerStr(m.MovieName),
                                       ShowPrefix(episode))
             exact == SelectSeq(entries, Exact)
             Same(m) == SameEpisode(m, episode)
             same == SelectSeq(entries, Same)
             closest == same[FirstMax([k \in 1..Len(same) |->
                                          same[k].showRatio])]
             titled == entries[FirstMax([k \in 1..Len(entries) |->
                                           entries[k].titleRatio])]
             \* the outcome of the branch for 'episode' in parsed
             ep == IF ~InParsed(f, "episode") THEN none
                   ELSE IF exact # <<>> THEN get(exact[1], FALSE)
                   ELSE IF same = <<>> THEN fail("ValueError")
                   ELSE IF FuzzyAccept(closest.showRatio)
                   THEN get(closest, FALSE)
                   ELSE none
         IN  IF ep.res # "none" THEN ep
             ELSE IF InParsed(f, "movie")
             THEN IF entries = <<>> THEN fail("ValueError")
                  ELSE get(titled, TRUE)
             ELSE none

\* ------------------------------------------------------------------------
\* action_resolve: the orchestrator and the hash stage

\* a detail record of imdb.get_title, media['base']; nextEpisode is the
\* reference to the record of the following episode, <<>> when it has none
Detail(id, titleType, runtime, hasNext) ==
    [id |-> id, titleType |-> titleType, runningTimeInMinutes |-> runtime,
     nextEpisode |-> IF hasNext THEN <<<<"next", id>>>> ELSE <<>>]

\* the titleType of the record imdb holds for a CheckMovieHash2 entry
TitleTypeOf(kind) == IF kind = "episode" THEN "tvEpisode" ELSE "movie"

\* the exception e leaves action_resolve from function fn
Raise(e, fn) ==
    /\ pc' = "raised"
    /\ error' = [type |-> e, in |-> fn]

\* a _connect that logs in again whatever _connected is
ConnectAlways(ok) == [calls |-> <<"LogIn">>, connected |-> ok]

\* OpenSubtitlesAPI._connect with the LogIn outcome ok: the calls made and
\* the value of _connected afterwards
Connect(ok) ==
    IF connected THEN [calls |-> <<>>, connected |-> TRUE]
    ELSE [calls |-> <<"LogIn">>, connected |-> ok]

\* a check_hash that sends its request a second time
check_hashRetried(con) ==
    con.calls \o <<"CheckMovieHash2", "CheckMovieHash2">>

\* OpenSubtitlesAPI.check_hash once _connect has returned: the calls made
check_hash(con) == con.calls \o <<"CheckMovieHash2">>

\* a text search that runs whatever search_hash returned
AfterSearchHashAlwaysText(m) == "search_text"

\* if not media: (line 1374) on the result of search_hash
AfterSearchHash(m) == IF m = <<>> THEN "search_text" ELSE "resolved"

\* search_hash up to the choice of the candidate (lines 1013-1112)
SearchHash ==
    /\ pc = "search_hash"
    /\ UNCHANGED <<parseVars, inputs, titles, submitted, searched,
                   should_insert_hash, ratio, via, ptype,
                   media_list, stdout, names, media>>
    /\ IF oshash = ""
       THEN \* if not oshash: return
            /\ pc' = AfterSearchHash(<<>>)
            /\ UNCHANGED <<error, connected, calls, medias, fetch>>
       ELSE \E login \in BOOLEAN, answer \in {"fail", "nodata", "data"} :
            LET con == Connect(login) IN
            /\ connected' = con.connected
            /\ IF ~con.connected
               THEN \* LogIn failed: ResolveException, caught by the caller
                    /\ calls' = calls \o con.calls
                    /\ pc' = AfterSearchHash(<<>>)
                    /\ UNCHANGED <<error, medias, fetch>>
               ELSE /\ calls' = calls \o check_hash(con)
                    /\ IF answer \in {"fail", "nodata"}
                       THEN \* the call failed (ResolveException, caught by
                            \* the caller) or the hash is not in the data
                            /\ pc' = AfterSearchHash(<<>>)
                            /\ UNCHANGED <<error, medias, fetch>>
                       ELSE \E data \in HashResponses :
                            LET choice == ChooseHash(found, data) IN
                            /\ medias' = data
                            /\ CASE choice.res = "none" ->
                                     /\ pc' = AfterSearchHash(<<>>)
                                     /\ UNCHANGED <<error, fetch>>
                                [] choice.res = "raise" ->
                                     /\ Raise(choice.err, "search_hash")
                                     /\ UNCHANGED fetch
                                [] choice.res = "fetch" ->
                                     /\ pc' = "hash_get_title"
                                     /\ fetch' = <<choice>>
                                     /\ UNCHANGED error

\* search_hash's imdb.get_title of the chosen candidate (lines 1098-1126);
\* an imdb object that excludes episodes gives no record of an episode
HashGetTitle ==
    /\ pc = "hash_get_title"
    /\ UNCHANGED <<parseVars, inputs, titles, submitted, searched,
                   should_insert_hash, ratio, ptype,
                   media_list, stdout, names, connected, error>>
    /\ calls' = Append(calls, "get_title")
    /\ fetch' = <<>>
    /\ medias' = <<>>
    /\ \/ \* the call failed: ResolveException, caught by the caller
          /\ pc' = AfterSearchHash(<<>>)
          /\ UNCHANGED <<media, via>>
       \/ \E runtime \in DetailRuntimes, next \in BOOLEAN :
          LET m == fetch[1].media[1]
              record == Detail(<<"hash", m.MovieImdbID>>,
                               TitleTypeOf(m.MovieKind), runtime, next)
          IN  /\ ~(fetch[1].exclude_episodes /\ m.MovieKind = "episode")
              /\ pc' = AfterSearchHash(<<record>>)
              /\ media' = <<record>>
              /\ via' = "hash"

\* ------------------------------------------------------------------------
\* action_resolve: the text stage

\* most results of one imdb.search_for_title call
MaxResults == 2

\* most aliases of the tvdb series
MaxAliases == 1

\* sys.maxint
MaxInt == 2147483647

Year2012 == <<"2", "0", "1", "2">>
Year1999 == <<"1", "9", "9", "9">>

\* series['firstAired'][:4]
FirstAired == Year2012

\* series['seriesName'] and the values series['aliases'] is made of
SeriesName == "seriesName"
AliasNames == {"alias1"}

\* one result of imdb.search_for_title(seriesName)
SeriesResults ==
    [type : {"TV series"}, title : {SeriesName} \cup AliasNames,
     year : {Year2012, Year1999}]
    \cup {[type |-> "feature", title |-> SeriesName, year |-> FirstAired]}

\* one result of imdb.search_for_title(movie['title']), with the
\* fuzz_ratio of its title and the runtime of its detail record
MovieResults ==
    [fuzz_ratio : {40, 90}, year : {Year2012, Year1999},
     runningTimeInMinutes : {<<90>>, <<120>>}]

\* results of one ratio and year, with and without a running time
UntimedResults ==
    [fuzz_ratio : {90}, year : {Year2012}, runningTimeInMinutes : Runtimes]

\* a list of results with the given fuzz ratios
Scored(ratios) ==
    [k \in 1..Len(ratios) |->
        [fuzz_ratio |-> ratios[k], year |-> Year2012,
         runningTimeInMinutes |-> <<90>>]]

\* imdb_id is the result's position in the list
WithImdbIds(list) ==
    [k \in 1..Len(list) |->
        [fuzz_ratio |-> list[k].fuzz_ratio, year |-> list[k].year,
         runningTimeInMinutes |-> list[k].runningTimeInMinutes,
         imdb_id |-> k]]

\* the answers of imdb.search_for_title(movie['title'])
MovieResponses ==
    {WithImdbIds(l) :
        l \in SeqsUpTo(MovieResults, MaxResults)
              \cup SeqsUpTo(UntimedResults, 2)
              \cup {Scored(<<70>>), Scored(<<90, 90, 70>>),
                    Scored(<<95, 94, 40, 38>>)}}

\* the answers of imdb.search_for_title(seriesName)
SeriesResponses ==
    {[k \in 1..Len(l) |->
         [type |-> l[k].type, title |-> l[k].title, year |-> l[k].year,
          imdb_id |-> k]] : l \in SeqsUpTo(SeriesResults, MaxResults)}

RECURSIVE Sum(_)
Sum(seq) == IF seq = <<>> THEN 0 ELSE Head(seq) + Sum(Tail(seq))

\* a search that is never restricted to a year
NeverRestricted(movie, search) == search

\* the results of the movie's year when the movie has a year and a result
\* has it, all results otherwise (lines 1148-1158)
YearRestricted(movie, search) ==
    LET SameYear(r) == r.year = movie.year
        year_found == movie.year # <<>> /\ \E k \in 1..Len(search) :
                                               SameYear(search[k])
    IN  IF year_found THEN SelectSeq(search, SameYear) ELSE search

\* the threshold with the sample standard deviation, which divides by
\* len(search) - 1
OverThresholdSample(search) ==
    LET n == Len(search)
        s == Sum([k \in 1..n |-> search[k].fuzz_ratio])
        q == Sum([k \in 1..n |->
                    (n * search[k].fuzz_ratio - s)
                    * (n * search[k].fuzz_ratio - s)])
        Over(r) == /\ n * r.fuzz_ratio - s >= 0
                   /\ (n - 1) * (n * r.fuzz_ratio - s)
                      * (n * r.fuzz_ratio - s) >= q
    IN  SelectSeq(search, Over)

\* fuzz_ratio >= mean_ratio + std_dev_ratio, the standard deviation being
\* sqrt(sum((ratio - mean) ** 2) / len(search)); in integers, with n the
\* number of results and s the sum of their ratios:
\* n * ratio - s >= 0 and n * (n * ratio - s) ** 2 >= sum((n * r - s) ** 2)
OverThreshold(search) ==
    LET n == Len(search)
        s == Sum([k \in 1..n |-> search[k].fuzz_ratio])
        q == Sum([k \in 1..n |->
                    (n * search[k].fuzz_ratio - s)
                    * (n * search[k].fuzz_ratio - s)])
        Over(r) == /\ n * r.fuzz_ratio - s >= 0
                   /\ n * (n * r.fuzz_ratio - s) * (n * r.fuzz_ratio - s) >= q
    IN  SelectSeq(search, Over)

\* a choice that keeps every result, whatever its ratio
EveryRatio(search) == search

\* the results with the highest ratio (lines 1163-1164)
HighestRatio(search) ==
    LET max_ratio == search[FirstMax([k \in 1..Len(search) |->
                                         search[k].fuzz_ratio])].fuzz_ratio
        Highest(r) == r.fuzz_ratio = max_ratio
    IN  SelectSeq(search, Highest)

\* a key that puts a result without runtime at distance 0
RuntimeDistanceUnknownNear(r, d) ==
    IF d # 0 /\ r.runningTimeInMinutes # <<>>
    THEN LET diff == r.runningTimeInMinutes[1] * 60 - d
         IN  IF diff < 0 THEN 0 - diff ELSE diff
    ELSE 0

\* the key of min() in search_text_movie: the distance of the runtime to
\* the duration, in seconds
RuntimeDistance(r, d) ==
    IF d # 0 /\ r.runningTimeInMinutes # <<>>
    THEN LET diff == r.runningTimeInMinutes[1] * 60 - d
         IN  IF diff < 0 THEN 0 - diff ELSE diff
    ELSE MaxInt

\* min(seq, key): the first element with the smallest key, given as index
FirstMin(keys) ==
    CHOOSE i \in 1..Len(keys) :
        /\ \A j \in 1..Len(keys) : keys[i] <= keys[j]
        /\ \A j \in 1..(i - 1) : keys[i] < keys[j]

\* a search_text that gives up after the episode strategy
AfterEpisodeMissNoMovie(f) ==
    IF InParsed(f, "episode") THEN "no_media"
    ELSE IF InParsed(f, "movie") THEN "imdb_search_movie" ELSE "no_media"

\* where search_text goes when the episode strategy gave nothing
AfterEpisodeMiss(f) ==
    IF InParsed(f, "movie") THEN "imdb_search_movie" ELSE "no_media"

\* if not media: should_insert_hash = True; media = search_text(), up to
\* the first strategy (lines 1374-1376, 1279-1289)
SearchTextStart ==
    /\ pc = "search_text"
    /\ UNCHANGED <<parseVars, inputs, titles, submitted, searched,
                   connected, calls, fetch, media, ratio,
                   via, ptype, media_list, stdout, names>>
    /\ medias' = <<>>
    /\ should_insert_hash' = TRUE
    /\ IF found = NotFound
       THEN \* 'episode' in parsed, with parsed = False
            Raise("TypeError", "search_text")
       ELSE /\ pc' = IF InParsed(found, "episode") THEN "tvdb_search"
                     ELSE AfterEpisodeMiss(found)
            /\ UNCHANGED error

\* search_text_episode: tvdb.search (lines 1204-1221)
TvdbSearch ==
    /\ pc = "tvdb_search"
    /\ UNCHANGED <<parseVars, inputs, titles, submitted, searched,
                   medias, connected, fetch, media, ratio, via,
                   ptype, media_list, stdout, names, should_insert_hash,
                   error>>
    /\ calls' = Append(calls, "tvdb.search")
    /\ \E answer \in {"fail", "empty", "series"} :
          pc' = IF answer = "series" THEN "tvdb_lookup"
                ELSE AfterEpisodeMiss(found)

\* search_text_episode: tvdb[seriesName] and series[season][episode]
\* (lines 1223-1224)
TvdbLookup ==
    /\ pc = "tvdb_lookup"
    /\ UNCHANGED <<parseVars, inputs, titles, submitted, searched,
                   medias, connected, fetch, media, ratio, via,
                   ptype, media_list, stdout, should_insert_hash>>
    /\ calls' = Append(calls, "tvdb.lookup")
    /\ \/ \* the season or the episode is not in the series
          /\ Raise("tvdb_episodenotfound", "search_text_episode")
          /\ UNCHANGED names
       \/ \* the tvdb request failed
          /\ Raise("tvdb_error", "search_text_episode")
          /\ UNCHANGED names
       \/ \E aliases \in SeqsUpTo(AliasNames, MaxAliases) :
          /\ names' = <<SeriesName>> \o aliases
          /\ pc' = "imdb_search_series"
          /\ UNCHANGED error

\* a filter that stops on the entries of the name, whatever their year
SeriesFilterNamed(seriesName, results) ==
    LET Named(s) == s.type = "TV series" /\ s.title = seriesName
    IN  SelectSeq(results, Named)

\* the entries of an answer left by the filters of the loop: type and
\* name, then the year when more than one is left (lines 1240-1252)
SeriesFilter(seriesName, results) ==
    LET Named(s) == s.type = "TV series" /\ s.title = seriesName
        Aired(s) == s.year = FirstAired
        named == SelectSeq(results, Named)
    IN  IF Len(named) > 1 THEN SelectSeq(named, Aired) ELSE named

\* search_text_episode: one iteration of the loop on the series name and
\* its aliases (lines 1233-1259)
ImdbSearchSeries ==
    /\ pc = "imdb_search_series"
    /\ UNCHANGED <<parseVars, inputs, titles, submitted, medias, connected,
                   media, ratio, via, ptype,
                   media_list, stdout, should_insert_hash, error>>
    /\ calls' = Append(calls, "search_for_title")
    /\ \/ \* the call failed: ResolveException, caught by search_text
          /\ pc' = AfterEpisodeMiss(found)
          /\ searched' = <<>>
          /\ UNCHANGED <<names, fetch>>
       \/ \E results \in SeriesResponses :
          LET seriesName == Head(names)
              search == SeriesFilter(seriesName, results)
          IN  /\ searched' = <<[name |-> seriesName, results |-> results]>>
              /\ IF search # <<>>
                 THEN /\ pc' = "imdb_title_episodes"
                      /\ fetch' = <<search[1]>>
                      /\ UNCHANGED names
                 ELSE /\ names' = Tail(names)
                      /\ pc' = IF Tail(names) = <<>>
                               THEN AfterEpisodeMiss(found)
                               ELSE "imdb_search_series"
                      /\ UNCHANGED fetch

\* search_text_episode: the listing of the series (lines 1262-1275)
ImdbTitleEpisodes ==
    /\ pc = "imdb_title_episodes"
    /\ searched' = <<>>
    /\ UNCHANGED <<parseVars, inputs, titles, submitted, medias, connected,
                   media, ratio, via, ptype,
                   media_list, stdout, should_insert_hash, names, fetch>>
    /\ calls' = Append(calls, "get_title_episodes")
    /\ \/ \* the call failed
          Raise("ProviderError", "search_text_episode")
       \/ \E listed \in BOOLEAN :
          /\ pc' = IF listed THEN "episode_get_title"
                   ELSE AfterEpisodeMiss(found)
          /\ UNCHANGED error

\* search_text_episode: imdb.get_title of the listed episode (line 1272)
EpisodeGetTitle ==
    /\ pc = "episode_get_title"
    /\ UNCHANGED <<parseVars, inputs, titles, submitted, searched,
                   medias, connected, ptype, media_list, stdout,
                   should_insert_hash, names>>
    /\ calls' = Append(calls, "get_title")
    /\ fetch' = <<>>
    /\ \/ /\ Raise("ProviderError", "search_text_episode")
          /\ UNCHANGED <<media, ratio, via>>
       \/ \E runtime \in DetailRuntimes, next \in BOOLEAN :
          /\ media' = <<Detail(<<"series", fetch[1].imdb_id>>, "tvEpisode",
                               runtime, next)>>
          /\ ratio' = <<>>
          /\ via' = "text"
          /\ pc' = "resolved"
          /\ UNCHANGED error

\* search_text_movie up to the results whose titles are fetched
\* (lines 1130-1182)
ImdbSearchMovie ==
    /\ pc = "imdb_search_movie"
    /\ searched' = <<>>
    /\ UNCHANGED <<parseVars, inputs, submitted, medias, connected, media,
                   ratio, via, ptype,
                   media_list, stdout, should_insert_hash, names>>
    /\ calls' = Append(calls, "search_for_title")
    /\ \/ \* the call failed (ResolveException, caught by search_text) or
          \* found nothing
          /\ pc' = "no_media"
          /\ UNCHANGED <<fetch, error, titles>>
       \/ \E results \in MovieResponses \ {<<>>} :
          LET restricted == YearRestricted(found.movie[1], results)
              survivors == OverThreshold(restricted)
          IN  /\ titles' = results
              /\ IF duration = 0
                 THEN /\ fetch' = <<HighestRatio(restricted)[1]>>
                      /\ pc' = "movie_get_title"
                      /\ UNCHANGED error
                 ELSE IF survivors = <<>>
                 THEN \* min() of an empty list
                      /\ Raise("ValueError", "search_text_movie")
                      /\ UNCHANGED fetch
                 ELSE /\ fetch' = survivors
                      /\ pc' = "movie_get_details"
                      /\ UNCHANGED error

\* the detail record of a result of the movie search
MovieDetail(r) ==
    Detail(<<"movie", r.imdb_id>>, "movie", r.runningTimeInMinutes, FALSE)

\* search_text_movie without duration: imdb.get_title of the first result
\* with the highest ratio (line 1167)
MovieGetTitle ==
    /\ pc = "movie_get_title"
    /\ UNCHANGED <<parseVars, inputs, titles, submitted, searched,
                   medias, connected, ptype, media_list, stdout,
                   should_insert_hash, names>>
    /\ calls' = Append(calls, "get_title")
    /\ fetch' = <<>>
    /\ \/ /\ Raise("ProviderError", "search_text_movie")
          /\ UNCHANGED <<media, ratio, via>>
       \/ /\ media' = <<MovieDetail(fetch[1])>>
          /\ ratio' = <<>>
          /\ via' = "text"
          /\ pc' = "resolved"
          /\ UNCHANGED error

\* search_text_movie with a duration: imdb.get_title of every result over
\* the threshold, and the choice of the closest (lines 1185-1200)
MovieGetDetails ==
    /\ pc = "movie_get_details"
    /\ UNCHANGED <<parseVars, inputs, titles, submitted, searched,
                   medias, connected, ptype, media_list, stdout,
                   should_insert_hash, names>>
    /\ fetch' = <<>>
    /\ \/ \E n \in 1..Len(fetch) :
          \* the n-th call failed
          /\ calls' = calls \o [k \in 1..n |-> "get_title"]
          /\ Raise("ProviderError", "search_text_movie")
          /\ UNCHANGED <<media, ratio, via>>
       \/ LET closest == fetch[FirstMin([k \in 1..Len(fetch) |->
                                   RuntimeDistance(fetch[k], duration)])]
          IN  /\ calls' = calls \o [k \in 1..Len(fetch) |-> "get_title"]
              /\ media' = <<MovieDetail(closest)>>
              /\ ratio' = <<closest.fuzz_ratio>>
              /\ via' = "text"
              /\ pc' = "resolved"
              /\ UNCHANGED error

\* ------------------------------------------------------------------------
\* action_resolve: hash submission, multi-episode expansion and output

\* ratio = media[2] if len(media) > 2 else 0
Ratio(r) == IF r = <<>> THEN 0 ELSE r[1]

\* parsed['type'] (lines 1388-1391)
TypeOf(m) == IF m.titleType = "tvEpisode" THEN "episode" ELSE "movie"

\* the condition on which insert_hash returns without sending the hash
SkipInsert(h, type, r) == h = "" \/ (type = "movie" /\ r < 70)

\* a hash submission without the test of should_insert_hash
ShouldInsertAnyResult(h, flag) == h # ""

\* if oshash and should_insert_hash: (line 1396)
ShouldInsert(h, flag) == h # "" /\ flag

\* a failed submission that ends the invocation
AfterInsertHashFatal(answer) ==
    IF answer = "accepted" THEN "expand" ELSE "raised"

\* after insert_hash: its ResolveException is caught and logged (lines
\* 1397-1401), the answer's status is only logged (lines 1328-1343)
AfterInsertHash(answer) == "expand"

\* from the result of the search to the call of insert_hash
\* (lines 1385-1404, 1301-1343)
InsertHash ==
    /\ pc = "resolved"
    /\ UNCHANGED <<parseVars, inputs, medias, media, ratio, via,
                   should_insert_hash, searched,
                   stdout, names, fetch>>
    /\ ptype' = TypeOf(media[1])
    /\ titles' = <<>>
    /\ IF /\ ShouldInsert(oshash, should_insert_hash)
          /\ ~SkipInsert(oshash, TypeOf(media[1]), Ratio(ratio))
       THEN IF duration = 0 /\ media[1].runningTimeInMinutes = <<>>
            THEN \* media['base']['runningTimeInMinutes'] * 60. with None
                 /\ Raise("TypeError", "insert_hash")
                 /\ UNCHANGED <<connected, calls, media_list, submitted>>
            ELSE \E login \in BOOLEAN,
                    answer \in {"fail", "accepted", "not accepted",
                                "other status"} :
                 \* a failed call is a ResolveException, which is caught;
                 \* the answers are logged
                 LET con == Connect(login)
                     outcome == IF con.connected THEN answer ELSE "fail"
                 IN
                 /\ connected' = con.connected
                 /\ calls' = calls \o con.calls
                       \o (IF con.connected THEN <<"InsertMovieHash">>
                           ELSE <<>>)
                 /\ submitted' = outcome
                 /\ media_list' = <<media[1]>>
                 /\ pc' = AfterInsertHash(outcome)
                 /\ UNCHANGED error
       ELSE /\ media_list' = <<media[1]>>
            /\ pc' = "expand"
            /\ UNCHANGED <<error, connected, calls, submitted>>

\* an expansion loop that fetches one record more than requested
MoreEpisodesOneMore ==
    /\ ptype = "episode"
    /\ found.episode # <<>> =>
          /\ Len(found.episode[1].episodes) > 1
          /\ Len(media_list) <= Len(found.episode[1].episodes)

\* the while loop of the expansion still has an episode to fetch
MoreEpisodes ==
    /\ ptype = "episode"
    /\ found.episode # <<>> =>
          /\ Len(found.episode[1].episodes) > 1
          /\ Len(media_list) < Len(found.episode[1].episodes)

\* one iteration of the expansion loop (lines 1407-1411)
ExpandStep ==
    /\ pc = "expand"
    /\ MoreEpisodes
    /\ UNCHANGED <<parseVars, inputs, titles, submitted, searched,
                   medias, ratio, via, should_insert_hash, stdout,
                   names, fetch, connected, ptype>>
    /\ IF found.episode = <<>>
       THEN \* parsed['episode'] without that key
            /\ Raise("KeyError", "action_resolve")
            /\ UNCHANGED <<calls, media, media_list>>
       ELSE IF media[1].nextEpisode = <<>>
       THEN \* media['base']['nextEpisode'] without that key
            /\ Raise("KeyError", "action_resolve")
            /\ UNCHANGED <<calls, media, media_list>>
       ELSE /\ calls' = Append(calls, "get_title")
            /\ \/ /\ Raise("ProviderError", "action_resolve")
                  /\ UNCHANGED <<media, media_list>>
               \/ \E runtime \in DetailRuntimes, next \in BOOLEAN :
                  LET m == Detail(media[1].nextEpisode[1], "tvEpisode",
                                  runtime, next)
                  IN  /\ media' = <<m>>
                      /\ media_list' = Append(media_list, m)
                      /\ UNCHANGED <<pc, error>>

\* print(json.dumps(byteify(media_list), ...)) (lines 1415-1417)
PrintList ==
    /\ pc = "expand"
    /\ ~MoreEpisodes
    /\ stdout' = "media_list"
    /\ pc' = "done"
    /\ UNCHANGED <<parseVars, inputs, titles, submitted, searched,
                   medias, ratio, via, should_insert_hash,
                   names, fetch, connected, ptype, calls, media, media_list,
                   error>>

\* print('[]'); return (lines 1379-1381)
PrintEmpty ==
    /\ pc = "no_media"
    /\ stdout' = "[]"
    /\ pc' = "done"
    /\ searched' = <<>>
    /\ UNCHANGED <<parseVars, inputs, titles, submitted, medias, ratio, via,
                   should_insert_hash,
                   names, fetch, connected, ptype, calls, media, media_list,
                   error>>

\* the state action_resolve starts parse_filename in
Start ==
    /\ pc = "series"
    /\ pi = 1
    /\ found = NotFound
    /\ evals = <<>>
    /\ error = NoError
    /\ connected = FALSE
    /\ calls = <<>>
    /\ medias = <<>>
    /\ fetch = <<>>
    /\ media = <<>>
    /\ ratio = <<>>
    /\ via = ""
    /\ should_insert_hash = FALSE
    /\ ptype = ""
    /\ media_list = <<>>
    /\ stdout = ""
    /\ names = <<>>
    /\ titles = <<>>
    /\ submitted = ""
    /\ searched = <<>>

Init ==
    /\ filename \in Filenames
    /\ oshash \in Hashes
    /\ duration \in Durations
    /\ Start

Next ==
    \/ SeriesStep
    \/ MoviesStep
    \/ SearchHash
    \/ HashGetTitle
    \/ SearchTextStart
    \/ TvdbSearch
    \/ TvdbLookup
    \/ ImdbSearchSeries
    \/ ImdbTitleEpisodes
    \/ EpisodeGetTitle
    \/ ImdbSearchMovie
    \/ MovieGetTitle
    \/ MovieGetDetails
    \/ InsertHash
    \/ ExpandStep
    \/ PrintList
    \/ PrintEmpty

Spec == Init /\ [][Next]_vars

\* parse_filename applied to each filename of ParseFilenames
ParseInit ==
    /\ filename \in ParseFilenames
    /\ oshash = ""
    /\ duration = 0
    /\ Start

ParseNext == SeriesStep \/ MoviesStep

ParseSpec == ParseInit /\ [][ParseNext]_vars

\* parse_filename has returned (found, or False when found is empty)
Parsed == pc \notin {"series", "movies"} /\ error.in # "parse_filename"

\* ------------------------------------------------------------------------
\* Properties of parse_filename (checked under ParseSpec)

\* the re.match calls on the patterns of one list that matched
MatchedIn(list) ==
    {i \in 1..Len(evals) : evals[i].list = list /\ evals[i].m}

\* the index, in its list, of the only pattern of that list that matched
MatchedPattern(list) == evals[CHOOSE i \in MatchedIn(list) : TRUE].k

ShowName == <<"S", "h", "o", "w", " ", "N", "a", "m", "e">>

\* C3 as stated: the result of parse_filename never holds both an Episode
\* and a Movie descriptor.
C3_NeverBothVariants ==
    Parsed => ~(found.episode # <<>> /\ found.movie # <<>>)

\* C3 amended: the result holds at most one Episode and at most one Movie
\* descriptor; the movie patterns are tried after the series loop whether
\* or not a series pattern matched, so the result holds a Movie descriptor
\* exactly when a movie pattern matches and may hold both variants.
C3_MoviesAlwaysTried ==
    Parsed =>
        /\ Len(found.episode) <= 1
        /\ Len(found.movie) <= 1
        /\ \E i \in 1..Len(evals) : evals[i].list = "movies" /\ evals[i].k = 1
        /\ found.episode # <<>> <=> MatchedIn("series") # {}
        /\ found.movie # <<>> <=> MatchedIn("movies") # {}

C3_BothVariants ==
    Parsed /\ found.episode # <<>> /\ found.movie # <<>>

\* C4: parse_filename never raises, and a filename matched by a series
\* pattern yields an Episode descriptor with a non-empty episodes list.
C4_ParseTotal ==
    /\ ~(pc = "raised" /\ error.in = "parse_filename")
    /\ MatchedIn("series") # {} =>
           /\ found.episode # <<>>
           /\ Len(found.episode[1].episodes) >= 1

\* C5: the patterns of each list are tried in list order, no pattern is
\* tried after one of its list matched, and the descriptor is built from
\* the captures of the earliest pattern that matches the filename.
C5_FirstMatchWins ==
    Parsed =>
        /\ \A i \in 1..Len(evals) :
              /\ evals[i].m =>
                    i = Len(evals) \/ evals[i + 1].list # evals[i].list
              /\ evals[i].k =
                    Cardinality({j \in 1..i : evals[j].list = evals[i].list})
        /\ found.episode # <<>> =>
              LET k == MatchedPattern("series")
                  p == series_patterns[k]
              IN  /\ \A j \in 1..(k - 1) :
                        Matches(series_patterns[j], filename) = <<>>
                  /\ found.episode[1] =
                        BuildEpisode(p, filename, Matches(p, filename)[1].c).v
        /\ found.movie # <<>> =>
              LET k == MatchedPattern("movies")
                  p == movies_patterns[k]
              IN  /\ \A j \in 1..(k - 1) :
                        Matches(movies_patterns[j], filename) = <<>>
                  /\ found.movie[1] =
                        BuildMovie(p, filename, Matches(p, filename)[1].c).v

\* a filename that two series patterns match: foo.s01e23e24 and foo.s01.e01
C5_SeveralPatternsMatch ==
    /\ Parsed
    /\ filename = fileShowNameS01E02E03
    /\ Matches(series_patterns[4], filename) # <<>>
    /\ Matches(series_patterns[13], filename) # <<>>
    /\ MatchedPattern("series") = 4
    /\ found.episode[1].episodes = <<2, 3>>

\* C6: for a matched start/end range with captured numbers s and e the
\* episodes list is min(s,e), min(s,e)+1, ..., max(s,e), and is not empty.
C6_RangeAscending ==
    Parsed /\ found.episode # <<>> =>
        LET p == series_patterns[MatchedPattern("series")]
            c == Matches(p, filename)[1].c
            s == ToInt(Sub(filename, c["episodenumberstart"]))
            e == ToInt(Sub(filename, c["episodenumberend"]))
            lo == IF s < e THEN s ELSE e
            hi == IF s < e THEN e ELSE s
            eps == found.episode[1].episodes
        IN  "episodenumberstart" \in p.groups /\ c["episodenumberend"] # NoCap
            => /\ Len(eps) = hi - lo + 1
               /\ Len(eps) >= 1
               /\ \A n \in 1..Len(eps) : eps[n] = lo + n - 1

C6_ReversedRange ==
    /\ Parsed
    /\ filename = fileReversed
    /\ found.episode # <<>>
    /\ found.episode[1].episodes = <<3, 4, 5>>

\* C7: 'Show.Name.S01E02.Group.mkv' gives the Episode descriptor with show
\* 'Show Name', season 1, episodes [2]; 'Show.Name.S01E02E03.mkv' gives
\* episodes [2,3].
C7_EpisodeFixtures ==
    Parsed =>
        /\ filename = fileShowNameS01E02 =>
              found.episode =
                  <<[show |-> ShowName, season |-> 1, episodes |-> <<2>>]>>
        /\ filename = fileShowNameS01E02E03 =>
              found.episode =
                  <<[show |-> ShowName, season |-> 1, episodes |-> <<2, 3>>]>>

C7_FixtureParsed ==
    /\ Parsed
    /\ filename = fileShowNameS01E02
    /\ found.episode # <<>>
    /\ found.episode[1].show = ShowName

\* C8 as stated: 'Movie.Title.2012.BRRip.XviD.mkv' gives the Movie
\* descriptor with title 'Movie Title' and year '2012', and no Episode
\* descriptor.
C8_MovieNotEpisode ==
    Parsed /\ filename = fileMovieTitle2012 =>
        /\ found.movie =
              <<[title |-> MovieTitle, year |-> <<"2", "0", "1", "2">>]>>
        /\ found.episode = <<>>

\* C8 amended: 'Movie.Title.2012.BRRip.XviD.mkv' gives the Movie
\* descriptor with title 'Movie Title' and year '2012' (the raw digits),
\* and with it the Episode descriptor of the foo.0103 pattern: show
\* 'Movie Title', season 20, episodes [12].
C8_MovieAndEpisode ==
    Parsed /\ filename = fileMovieTitle2012 =>
        /\ found.movie =
              <<[title |-> MovieTitle, year |-> <<"2", "0", "1", "2">>]>>
        /\ found.episode =
              <<[show |-> MovieTitle, season |-> 20, episodes |-> <<12>>]>>

C8_MovieFixtureParsed ==
    /\ Parsed
    /\ filename = fileMovieTitle2012
    /\ found.movie # <<>>
    /\ found.movie[1].year = <<"2", "0", "1", "2">>

\* ------------------------------------------------------------------------
\* Properties of action_resolve (checked under Spec)

\* the provider calls of the text resolver
TextCalls ==
    {"tvdb.search", "tvdb.lookup", "search_for_title", "get_title_episodes"}

Called(call) == \E i \in 1..Len(calls) : calls[i] = call

\* C1: when neither the hash stage nor a text strategy yields a record,
\* action_resolve prints '[]' and returns: an invocation that ends without
\* a record, other than on a failed provider call or inside
\* parse_filename, ends with '[]' printed and no exception.
C1_MissPrintsEmpty ==
    /\ pc \in {"done", "raised"}
    /\ media = <<>>
    /\ error.in # "parse_filename"
    /\ error.type \notin {"ProviderError", "tvdb_error"}
    => pc = "done" /\ stdout = "[]" /\ error = NoError

\* C2: the hash resolver runs before the text resolver, the text resolver
\* runs only when the hash resolver gave no record, and an invocation whose
\* record comes from the hash resolver makes no text-search provider call.
C2_HashBeforeText ==
    /\ via = "hash" =>
          /\ \A i \in 1..Len(calls) : calls[i] \notin TextCalls
          /\ ~should_insert_hash
    /\ pc \in {"search_text", "tvdb_search", "tvdb_lookup",
               "imdb_search_series", "imdb_title_episodes",
               "episode_get_title", "imdb_search_movie", "movie_get_title",
               "movie_get_details"} => media = <<>>
    /\ \A i \in 1..Len(calls) : \A j \in 1..Len(calls) :
          calls[i] = "CheckMovieHash2" /\ calls[j] \in TextCalls => i < j

C2_ResolvedByHash ==
    /\ pc = "done"
    /\ via = "hash"
    /\ stdout = "media_list"
    /\ Called("CheckMovieHash2")

\* the variant of the descriptor: the episode patterns come first
Variant(f) ==
    IF f.episode # <<>> THEN "episode"
    ELSE IF f.movie # <<>> THEN "movie"
    ELSE "none"

\* C9 as stated: a single candidate is accepted only if its kind equals
\* the variant of the descriptor, a candidate of kind movie being refused
\* for a filename parsed as an episode.
C9_SingleCandidateSameVariant ==
    pc = "hash_get_title" /\ Len(medias) = 1
    => medias[1].MovieKind = Variant(found)

\* C9 amended: when the hash lookup returns exactly one candidate and
\* parse_filename recognised the filename, the candidate is accepted if and
\* only if the parse result holds a descriptor of the candidate's kind (a
\* result holding both an Episode and a Movie descriptor accepts both
\* kinds); otherwise the hash stage gives no result and the text resolver
\* runs. For an unrecognised filename the kind test raises TypeError.
C9_SingleCandidateKindParsed ==
    Len(medias) = 1 =>
        LET kind == medias[1].MovieKind
            parsedKind == \/ kind = "episode" /\ found.episode # <<>>
                          \/ kind = "movie" /\ found.movie # <<>>
        IN  IF found = NotFound
            THEN pc = "raised" /\ error = [type |-> "TypeError",
                                           in |-> "search_hash"]
            ELSE /\ pc \in {"hash_get_title", "search_text"}
                 /\ pc = "hash_get_title" <=> parsedKind
                 /\ pc = "hash_get_title" => fetch[1].media = <<medias[1]>>
                 /\ pc = "search_text" => media = <<>> /\ error = NoError

C9_MovieCandidateRefused ==
    /\ pc = "search_text"
    /\ Len(medias) = 1
    /\ medias[1].MovieKind = "movie"
    /\ found.episode # <<>>
    /\ found.movie = <<>>

\* C10: InsertMovieHash is called only in an invocation that was given a
\* hash and whose record comes from the text resolver.
C10_InsertOnlyAfterText ==
    Called("InsertMovieHash") => oshash # "" /\ via = "text"

C10_HashInserted ==
    /\ pc = "done"
    /\ Called("InsertMovieHash")
    /\ Called("CheckMovieHash2")
    /\ stdout = "media_list"

\* insert_hash has been reached or passed with a record of search_text
\* and a hash
AfterTextWithHash == ptype # "" /\ via = "text" /\ oshash # ""

\* C11: after a text-based resolution with a hash supplied, the hash of a
\* movie is submitted only if the score of the match is >= 70, and the
\* hash of an episode is always submitted (the call being made whenever
\* the session of the hash-lookup service is there).
C11_SubmitByKind ==
    AfterTextWithHash =>
        /\ ptype = "movie" /\ Called("InsertMovieHash") => Ratio(ratio) >= 70
        /\ ptype = "episode" /\ connected => Called("InsertMovieHash")

\* the number of records action_resolve prints for the record it resolved
Requested ==
    IF ptype = "episode" /\ Len(found.episode[1].episodes) > 1
    THEN Len(found.episode[1].episodes)
    ELSE 1

\* C12: a hash submission that fails (the call raises, the status is not
\* '200 OK', or the hash is not listed as accepted) is not a failure of the
\* invocation: whatever the outcome of the submission, the invocation goes
\* on to the expansion with the resolved record, and what it prints is the
\* list of the records requested, as after an accepted submission.
C12_FailedSubmissionNotFatal ==
    submitted # "" =>
        /\ pc \in {"expand", "done", "raised"}
        /\ pc = "raised" =>
              error.in = "action_resolve" /\ Len(media_list) < Requested
        /\ Len(media_list) >= 1
        /\ media_list[1].id[1] \in {"series", "movie"}
        /\ pc = "done" =>
              /\ error = NoError
              /\ stdout = "media_list"
              /\ Len(media_list) = Requested

C12_PrintedAfterFailedSubmission ==
    /\ pc = "done"
    /\ submitted = "fail"
    /\ stdout = "media_list"
    /\ Len(media_list) = 2

\* C13: the printed list has exactly n records when the resolved record is
\* an episode and the descriptor holds n > 1 episodes, and exactly one
\* record otherwise; its first record is the resolved record and every
\* following record is the one fetched through the nextEpisode reference
\* of the record before it.
C13_ExpansionChain ==
    /\ \A k \in 1..(Len(media_list) - 1) :
          media_list[k].nextEpisode = <<media_list[k + 1].id>>
    /\ media_list # <<>> =>
          /\ media_list[1].id[1] \in {"hash", "series", "movie"}
          /\ Len(media_list) <=
                (IF ptype = "episode" THEN Len(found.episode[1].episodes)
                 ELSE 1)
    /\ pc = "done" /\ stdout = "media_list" =>
          LET n == Len(found.episode[1].episodes) IN
          /\ ptype = "episode" /\ n > 1 => Len(media_list) = n
          /\ ptype = "movie" \/ n = 1 => Len(media_list) = 1

C13_TwoEpisodesPrinted ==
    /\ pc = "done"
    /\ stdout = "media_list"
    /\ ptype = "episode"
    /\ Len(found.episode[1].episodes) = 2
    /\ Len(media_list) = 2
    /\ media_list[2].id = <<"next", media_list[1].id>>

\* C14: a failure of a provider call is never fatal to the resolution: no
\* exception of a provider call leaves action_resolve.
C14_ProviderFailureNotFatal ==
    ~(pc = "raised" /\ error.type \in {"ProviderError", "tvdb_error"})

\* the calls that use the session of the hash-lookup service
SessionCalls == {"CheckMovieHash2", "InsertMovieHash"}

\* C15: the session of the hash-lookup service is established lazily and
\* at most once: no LogIn is made when no call needs it, every
\* CheckMovieHash2 and InsertMovieHash call comes after a LogIn, and no
\* LogIn is made after a call has used the session.
C15_SessionOnce ==
    /\ oshash = "" => ~Called("LogIn")
    /\ ~connected => \A j \in 1..Len(calls) : calls[j] \notin SessionCalls
    /\ \A j \in 1..Len(calls) :
          calls[j] \in SessionCalls =>
              /\ \E i \in 1..(j - 1) : calls[i] = "LogIn"
              /\ \A k \in (j + 1)..Len(calls) : calls[k] # "LogIn"

C15_SessionReused ==
    /\ pc = "done"
    /\ Called("CheckMovieHash2")
    /\ Called("InsertMovieHash")
    /\ Cardinality({i \in 1..Len(calls) : calls[i] = "LogIn"}) = 1

\* the candidate whose title search_hash is about to fetch was chosen by
\* the fuzzy fallback: several candidates, an Episode descriptor, no
\* candidate passing the exact test, and the episode branch's imdb object
FuzzyChoice ==
    /\ pc = "hash_get_title"
    /\ Len(medias) # 1
    /\ found.episode # <<>>
    /\ ~fetch[1].exclude_episodes
    /\ \A k \in 1..Len(medias) :
          ~(/\ medias[k].MovieKind = "episode"
            /\ medias[k].SeriesSeason = found.episode[1].season
            /\ medias[k].SeriesEpisode = found.episode[1].episodes[1]
            /\ StartsWith(LowerStr(medias[k].MovieName),
                          ShowPrefix(found.episode[1])))

\* C16: the fuzzy fallback of the hash stage accepts its best-scoring
\* candidate only if the score, on the scale from 0 to 100, is >= 80.
C16_FuzzyThreshold80 ==
    FuzzyChoice => fetch[1].media[1].showRatio >= 80

\* search_hash is about to fetch the title of a candidate chosen among
\* several, for a filename parsed as an episode
ChosenAmongSeveral ==
    pc = "hash_get_title" /\ Len(medias) > 1 /\ found.episode # <<>>

\* entry k of medias is an episode with the season and the first episode
\* of the descriptor
Numbered(k) ==
    /\ medias[k].MovieKind = "episode"
    /\ medias[k].SeriesSeason = found.episode[1].season
    /\ medias[k].SeriesEpisode = found.episode[1].episodes[1]

\* entry k passes the exact test
Prefixed(k) ==
    /\ Numbered(k)
    /\ StartsWith(LowerStr(medias[k].MovieName), ShowPrefix(found.episode[1]))

\* C17 as stated: with several candidates and a filename parsed as an
\* episode, every candidate the hash stage accepts is an episode with the
\* season and the first episode of the descriptor.
C17_AcceptedIsTheEpisode ==
    ChosenAmongSeveral =>
        LET m == fetch[1].media[1] IN
        /\ m.MovieKind = "episode"
        /\ m.SeriesSeason = found.episode[1].season
        /\ m.SeriesEpisode = found.episode[1].episodes[1]

\* C17 amended: with several candidates and a filename parsed as an
\* episode, the candidate accepted by the episode branch is an episode
\* with the season and the first episode of the descriptor: the first one
\* whose lower-cased title starts with the quoted lower-cased show name
\* or, when there is none, one whose title does not. When the episode
\* branch accepts nothing (candidates with these numbers exist and all
\* score 0) and the parse result also holds a Movie descriptor, the movie
\* branch takes the candidate with the best title similarity, whatever its
\* kind and numbers, and fetches it with episodes excluded.
C17_EpisodeOrMovieBranch ==
    ChosenAmongSeveral =>
        LET k == fetch[1].media[1].MovieImdbID
            exact == {i \in 1..Len(medias) : Prefixed(i)}
            same == {i \in 1..Len(medias) : Numbered(i)}
        IN  /\ fetch[1].media[1] = medias[k]
            /\ ~fetch[1].exclude_episodes =>
                  /\ Numbered(k)
                  /\ exact # {} => k \in exact /\ \A i \in exact : k <= i
            /\ fetch[1].exclude_episodes =>
                  /\ found.movie # <<>>
                  /\ exact = {}
                  /\ same # {}
                  /\ \A i \in same : medias[i].showRatio = 0
                  /\ \A i \in 1..Len(medias) :
                        medias[i].titleRatio <= medias[k].titleRatio

C17_MovieAcceptedForEpisode ==
    /\ ChosenAmongSeveral
    /\ fetch[1].exclude_episodes
    /\ fetch[1].media[1].MovieKind = "movie"

\* entry k of medias is the first of the entries with the best similarity
\* to the movie title
BestTitled(k) ==
    /\ \A i \in 1..Len(medias) : medias[i].titleRatio <= medias[k].titleRatio
    /\ \A i \in 1..(k - 1) : medias[i].titleRatio < medias[k].titleRatio

\* C18: with several candidates and a Movie descriptor, the movie branch
\* of the hash stage takes the first of the candidates with the maximum
\* title similarity, whatever the score (with only a Movie descriptor it
\* always takes one), and the record the hash stage returns is the one
\* fetched for that candidate.
C18_MovieBranchFirstMax ==
    /\ [](/\ Len(medias) > 1 /\ found.movie # <<>> /\ found.episode = <<>>
             => pc = "hash_get_title" /\ fetch[1].exclude_episodes
          /\ pc = "hash_get_title" /\ Len(medias) > 1
             /\ fetch[1].exclude_episodes =>
                LET k == fetch[1].media[1].MovieImdbID IN
                /\ found.movie # <<>>
                /\ fetch[1].media[1] = medias[k]
                /\ BestTitled(k))
    /\ [][pc = "hash_get_title" /\ via' = "hash" =>
             /\ Len(media') = 1
             /\ media'[1].id = <<"hash", fetch[1].media[1].MovieImdbID>>
             /\ pc' = "resolved"]_vars

C18_SecondCandidateReturned ==
    /\ via = "hash"
    /\ pc = "resolved"
    /\ found.episode = <<>>
    /\ found.movie # <<>>
    /\ media[1].id = <<"hash", 2>>
    /\ media[1].titleType = "movie"

\* the number of CheckMovieHash2 requests sent so far
HashQueries ==
    Cardinality({i \in 1..Len(calls) : calls[i] = "CheckMovieHash2"})

\* search_hash has returned or raised
PastSearchHash ==
    /\ pc \notin {"series", "movies", "search_hash"}
    /\ ~(pc = "raised" /\ error.in = "parse_filename")

YearKept(r) ==
    LET year == found.movie[1].year
    IN  (year # <<>> /\ \E i \in 1..Len(titles) : titles[i].year = year)
            => r.year = year

\* result k is, in the order of the provider, the first of the results
\* left by the year restriction that have the maximum score
FirstBest(k) ==
    /\ k \in 1..Len(titles)
    /\ YearKept(titles[k])
    /\ \A i \in 1..Len(titles) :
          YearKept(titles[i]) => titles[i].fuzz_ratio <= titles[k].fuzz_ratio
    /\ \A i \in 1..(k - 1) :
          YearKept(titles[i]) => titles[i].fuzz_ratio < titles[k].fuzz_ratio

\* C20: movie text strategy without a duration: the title fetched, and the
\* record returned, is that of the first result, in provider order, whose
\* score is the maximum of the scores of the (year-restricted) results; a
\* non-empty answer always gets one fetched.
C20_FirstOfHighest ==
    titles # <<>> /\ duration = 0 =>
        /\ pc # "no_media"
        /\ pc = "movie_get_title" =>
              /\ Len(fetch) = 1
              /\ FirstBest(fetch[1].imdb_id)
              /\ fetch[1] = titles[fetch[1].imdb_id]
        /\ pc = "resolved" =>
              /\ via = "text"
              /\ Len(media) = 1
              /\ media[1].id[1] = "movie"
              /\ FirstBest(media[1].id[2])

C20_First90Returned ==
    /\ pc = "resolved"
    /\ duration = 0
    /\ titles = WithImdbIds(Scored(<<90, 90, 70>>))
    /\ media[1].id = <<"movie", 1>>

\* the results of the movie search left by the year restriction
Restricted == SelectSeq(titles, YearKept)

\* the sum of the scores of the restricted results, and of their squares
ScoreSum == Sum([k \in 1..Len(Restricted) |-> Restricted[k].fuzz_ratio])
SquareSum ==
    Sum([k \in 1..Len(Restricted) |->
            Restricted[k].fuzz_ratio * Restricted[k].fuzz_ratio])

\* score >= mean + population standard deviation, the variance being the
\* mean of the squares minus the square of the mean; with n results, both
\* sides times n: n * score - sum >= sqrt(n * squares - sum ** 2)
Survives(r) ==
    LET n == Len(Restricted)
        d == n * r.fuzz_ratio - ScoreSum
    IN  d >= 0 /\ d * d >= n * SquareSum - ScoreSum * ScoreSum

\* C21: movie text strategy with a duration: the results whose titles are
\* fetched are exactly the (year-restricted) results whose score is at
\* least the mean plus the population standard deviation of the scores,
\* in the order of the answer; of the scores [95,94,40,38] only the 95
\* survives.
C21_SurvivorsOverMeanPlusStd ==
    /\ pc = "movie_get_details" =>
          duration # 0 /\ fetch = SelectSeq(Restricted, Survives)
    /\ pc = "raised" /\ error.in = "search_text_movie"
       /\ error.type = "ValueError" =>
          SelectSeq(Restricted, Survives) = <<>>
    /\ pc = "movie_get_details"
       /\ titles = WithImdbIds(Scored(<<95, 94, 40, 38>>)) =>
          fetch = <<titles[1]>>

C21_Only95Survives ==
    /\ pc = "movie_get_details"
    /\ titles = WithImdbIds(Scored(<<95, 94, 40, 38>>))
    /\ Len(fetch) = 1
    /\ fetch[1].fuzz_ratio = 95

\* the results whose titles search_text_movie fetches when it has a
\* duration
Survivors == SelectSeq(Restricted, Survives)

\* the runtime of a is strictly closer to the duration than that of b, a
\* missing runtime being farther than any runtime
Closer(a, b) ==
    LET Gap(r) == IF r.runningTimeInMinutes[1] * 60 >= duration
                  THEN r.runningTimeInMinutes[1] * 60 - duration
                  ELSE duration - r.runningTimeInMinutes[1] * 60
    IN  /\ a.runningTimeInMinutes # <<>>
        /\ b.runningTimeInMinutes = <<>> \/ Gap(a) < Gap(b)

\* survivor j is the first of the survivors nothing is closer than
FirstClosest(j) ==
    /\ j \in 1..Len(Survivors)
    /\ \A i \in 1..(j - 1) : Closer(Survivors[j], Survivors[i])
    /\ \A i \in 1..Len(Survivors) : ~Closer(Survivors[i], Survivors[j])

\* C22: movie text strategy with a duration: the record returned is that
\* of the survivor whose runtime in seconds is the closest to the
\* duration, a survivor without runtime being farther than any other and
\* a tie going to the first survivor in the order of the list; its score
\* is returned with it.
C22_ClosestRuntime ==
    pc = "resolved" /\ titles # <<>> /\ duration # 0 =>
        /\ via = "text"
        /\ Len(media) = 1
        /\ \E j \in 1..Len(Survivors) :
              /\ FirstClosest(j)
              /\ media[1].id = <<"movie", Survivors[j].imdb_id>>
              /\ media[1].runningTimeInMinutes
                    = Survivors[j].runningTimeInMinutes
              /\ ratio = <<Survivors[j].fuzz_ratio>>

C22_SecondSurvivorCloser ==
    /\ pc = "resolved"
    /\ duration = 7100
    /\ Len(Survivors) = 2
    /\ Survivors[1].runningTimeInMinutes = <<90>>
    /\ Survivors[2].runningTimeInMinutes = <<120>>
    /\ media[1].id = <<"movie", Survivors[2].imdb_id>>

\* the descriptor has a year and at least one result of the answer has it
YearFound ==
    /\ found.movie[1].year # <<>>
    /\ \E i \in 1..Len(titles) : titles[i].year = found.movie[1].year

\* the positions, in the answer, of the results the strategy works on
CandidateSet ==
    IF YearFound
    THEN {i \in 1..Len(titles) : titles[i].year = found.movie[1].year}
    ELSE 1..Len(titles)

\* C23: movie text strategy: the results the strategy chooses among are
\* those of the descriptor's year if and only if the descriptor has a year
\* and a result has that year, and the whole answer otherwise: without a
\* duration the title fetched is the best of that set, with a duration
\* the titles fetched are the members of that set over the threshold
\* computed on that set.
C23_YearRestriction ==
    /\ pc = "movie_get_title" =>
          /\ fetch[1].imdb_id \in CandidateSet
          /\ \A i \in CandidateSet :
                titles[i].fuzz_ratio <= fetch[1].fuzz_ratio
    /\ pc = "movie_get_details" =>
          /\ Len(Restricted) = Cardinality(CandidateSet)
          /\ \A i \in 1..Len(titles) :
                (\E k \in 1..Len(fetch) : fetch[k] = titles[i])
                    <=> i \in CandidateSet /\ Survives(titles[i])

C23_BetterResultOfOtherYear ==
    /\ pc = "movie_get_title"
    /\ YearFound
    /\ \E i \in 1..Len(titles) :
          /\ titles[i].year # found.movie[1].year
          /\ titles[i].fuzz_ratio > fetch[1].fuzz_ratio

\* C24: episode text strategy: when the series found has no node for the
\* descriptor's season and first requested episode, the strategy gives no
\* result and the invocation goes on: it never ends on the exception of
\* the missing node.
C24_MissingEpisodeNoResult ==
    ~(/\ pc = "raised"
      /\ error.in = "search_text_episode"
      /\ error.type = "tvdb_episodenotfound")

\* entry s of the last answer is a series with exactly the name searched
IsNamed(s) == s.type = "TV series" /\ s.title = searched[1].name

\* entry s has the year the series was first aired in
IsAired(s) == s.year = FirstAired

\* the entries of the last answer with the type and the name, and those
\* the loop of search_text_episode keeps of them
LastNamed == SelectSeq(searched[1].results, IsNamed)
LastKept ==
    IF Len(LastNamed) > 1 THEN SelectSeq(LastNamed, IsAired) ELSE LastNamed

\* C25 as stated: the loop on the names stops at the first name whose
\* answer holds an entry of type series with exactly that name, and no
\* later alias is searched.
C25_StopsAtFirstNamed ==
    searched # <<>> /\ LastNamed # <<>> => pc = "imdb_title_episodes"

\* C25 amended: the names are searched in the order canonical name, then
\* aliases; the entries of an answer are filtered to series-typed entries
\* with exactly the name, and, only when more than one is left, to those
\* of the first-aired year; the loop stops at the first name for which
\* this leaves an entry, takes the first entry left and searches no later
\* alias; when the year filter leaves nothing of several entries of the
\* name, the loop goes on to the next alias.
C25_StopsAtFirstKept ==
    /\ pc = "imdb_search_series" =>
          /\ names # <<>>
          /\ IF searched = <<>> THEN names[1] = SeriesName
             ELSE \A i \in 1..Len(names) : names[i] \in AliasNames
    /\ searched # <<>> =>
          /\ LastKept # <<>> <=> pc = "imdb_title_episodes"
          /\ pc = "imdb_title_episodes" =>
                /\ fetch = <<LastKept[1]>>
                /\ names[1] = searched[1].name
          /\ LastKept = <<>> =>
                /\ pc \in {"imdb_search_series", "imdb_search_movie",
                           "no_media"}
                /\ pc = "imdb_search_series" <=> names # <<>>

C25_YearFilterPassesToAlias ==
    /\ pc = "imdb_search_series"
    /\ searched # <<>>
    /\ searched[1].name = SeriesName
    /\ Len(LastNamed) > 1
    /\ LastKept = <<>>
    /\ names[1] \in AliasNames

\* C26: in the fuzzy fallback of the hash stage (several candidates, an
\* Episode descriptor, no exact match), when no candidate is an episode
\* with the descriptor's season and first requested episode, the hash
\* stage gives no result and the resolution goes on: the invocation never
\* ends there on an exception.
C26_NoNumberedCandidateNoResult ==
    ~(/\ pc = "raised"
      /\ error.in = "search_hash"
      /\ Len(medias) > 1
      /\ found # NotFound
      /\ found.episode # <<>>
      /\ \A i \in 1..Len(medias) :
            ~SameEpisode(medias[i], found.episode[1]))

\* C27: movie text strategy with a duration: every non-empty
\* (year-restricted) answer has a result whose score is at least the mean
\* plus the population standard deviation, so that the choice of the
\* closest runtime always has a survivor and the strategy never fails on
\* an empty list of survivors.
C27_SurvivorsNeverEmpty ==
    titles # <<>> /\ duration # 0 =>
        /\ Survivors # <<>>
        /\ ~(pc = "raised" /\ error.in = "search_text_movie"
             /\ error.type = "ValueError")

\* C28: for a movie resolved by the text search, the score that is
\* compared with the threshold of the hash submission is the similarity
\* between the descriptor's title and the title of the result chosen,
\* with a duration and without one.
C28_ScoreOfChosenResult ==
    /\ pc = "resolved"
    /\ via = "text"
    /\ titles # <<>>
    /\ media[1].id[1] = "movie"
    => Ratio(ratio) = titles[media[1].id[2]].fuzz_ratio

\* C29: when parse_filename returns False (no pattern matched the
\* filename), action_resolve completes normally and prints '[]', with or
\* without a hash and whatever the hash lookup returns.
C29_UnrecognisedPrintsEmpty ==
    Parsed /\ found = NotFound =>
        /\ pc # "raised"
        /\ error = NoError
        /\ pc = "done" => stdout = "[]"

\* the statements of the two strategies of search_text
EpisodeStrategy ==
    {"tvdb_search", "tvdb_lookup", "imdb_search_series",
     "imdb_title_episodes", "episode_get_title"}
MovieStrategy == {"imdb_search_movie", "movie_get_title", "movie_get_details"}

\* C30: search_text runs the episode strategy first whenever the parse
\* result holds an Episode descriptor, and the movie strategy only when
\* the parse result holds a Movie descriptor and the episode strategy,
\* if it ran, gave no record (or was ended by a provider error that
\* search_text catches); its result is the record of the first strategy
\* that gives one, and nothing when none does.
C30_EpisodeThenMovie ==
    /\ [](/\ pc \in EpisodeStrategy =>
                /\ found.episode # <<>>
                /\ media = <<>>
                /\ titles = <<>>
          /\ pc \in MovieStrategy =>
                /\ found.movie # <<>>
                /\ media = <<>>
                /\ found.episode # <<>> => Called("tvdb.search")
          /\ via = "text" /\ pc = "resolved" =>
                IF media[1].id[1] = "series"
                THEN found.episode # <<>> /\ titles = <<>>
                ELSE /\ media[1].id[1] = "movie"
                     /\ found.movie # <<>>
                     /\ titles # <<>>
          /\ pc = "no_media" =>
                /\ media = <<>>
                /\ found.episode # <<>> => Called("tvdb.search")
                /\ found.movie # <<>> => Called("search_for_title"))
    /\ [][/\ pc = "search_text" /\ pc' # "raised" =>
                pc' = IF found.episode # <<>> THEN "tvdb_search"
                      ELSE IF found.movie # <<>> THEN "imdb_search_movie"
                      ELSE "no_media"
          /\ pc \in EpisodeStrategy /\ pc' \notin EpisodeStrategy
             /\ pc' \notin {"raised", "resolved"} =>
                pc' = IF found.movie # <<>> THEN "imdb_search_movie"
                      ELSE "no_media"
          /\ pc' = "no_media" /\ pc # "no_media" /\ found.movie # <<>> =>
                pc = "imdb_search_movie"
          /\ pc' = "imdb_search_movie" /\ pc # "imdb_search_movie" =>
                pc \in EpisodeStrategy \cup {"search_text"}]_vars

C30_MovieAfterEpisodeMiss ==
    /\ pc = "resolved"
    /\ via = "text"
    /\ found.episode # <<>>
    /\ Called("tvdb.search")
    /\ media[1].id[1] = "movie"

====
